---- MODULE Spec2Model ----
(***************************************************************************)
(* Diameter Gy test clients (my_task/*.py): the stream framer              *)
(* recv_one_diameter, and the main flows of the four client scripts over   *)
(* one TCP connection.                                                     *)
(*                                                                         *)
(* A byte is a number 0..255 and a byte string is a sequence of bytes.     *)
(* The socket is the sequence inbuf of bytes the peer has delivered and    *)
(* the client has not read yet, and the flag peerClosed.                   *)
(***************************************************************************)
EXTENDS Integers, Sequences, FiniteSets, TLC

VARIABLES
    inbuf,       \* bytes delivered by the peer, not yet read by the client
    peerClosed,  \* the peer has closed its side: recv on empty inbuf gives b""
    header,      \* recv_one_diameter: local header
    body,        \* recv_one_diameter: local body
    total_len,   \* recv_one_diameter: local total_len
    rpc,         \* recv_one_diameter: position
    oneByte,     \* history: every chunk of the current recv_one_diameter was one byte
    calls,       \* recv_one_diameter calls started
    received,    \* the byte strings recv_one_diameter has returned, in order
    sent,        \* history: the frames the peer has written, in order
    wire,        \* history: every byte the peer has delivered, in order
    script,      \* which client runs: "exhausted", "iut", "data" or "cer"
    pc,          \* main(): position
    sockOpen,    \* the client's socket is connected and not yet closed
    out,         \* the messages the client has written with sock.sendall, in order
    clock,       \* int(time.time()), in seconds from the start of the process
    start,       \* main(): local start
    used_total,  \* main(): local used_total
    elapsed,     \* main(): local elapsed
    increments,  \* history: the iterations of the simulation loop that added usage
    answered,    \* peer: requests of the client it has answered
    unsolicited, \* peer: messages of its own it has sent
    malformed,   \* peer: answers it has sent that cannot be decoded
    pending,     \* peer: bytes of the frame it is writing that are still under way
    cpc,         \* message library: position of the caller
    msg,         \* message library: the message object being built
    msg_bytes,   \* message library: what as_bytes() returned
    parsed,      \* message library: what Message.from_bytes(msg_bytes) returned
    avp,         \* message library: an Avp object
    enc,         \* message library: its encoding
    dec,         \* message library: what decoding enc returned
    last_set,    \* history: per attribute, the value its setter was given last
    added        \* history: the repeatable AVPs added to msg, in the order added

sockVars == <<inbuf, peerClosed>>

recvVars == <<header, body, total_len, rpc, oneByte>>

mainVars == <<script, pc, sockOpen, out, clock, start, used_total, elapsed,
             increments>>

peerVars == <<answered, unsolicited, malformed, pending>>

histVars == <<calls, received, sent, wire, mainVars, peerVars>>

codecVars == <<cpc, msg, msg_bytes, parsed, avp, enc, dec, last_set, added>>

msgVars == <<msg, msg_bytes, parsed, last_set, added>>

clientVars == <<sockVars, recvVars, histVars>>

vars == <<clientVars, codecVars>>

(***************************************************************************)
(* Bounds of the model.                                                    *)
(***************************************************************************)
MaxBody == 3
MaxFrames == 2

(***************************************************************************)
(* Program constants.                                                      *)
(***************************************************************************)
HEADER_LEN == 20

(***************************************************************************)
(* Helpers.                                                                *)
(***************************************************************************)
Min(a, b) == IF a < b THEN a ELSE b

Max(a, b) == IF a > b THEN a ELSE b

Drop(s, k) == SubSeq(s, k + 1, Len(s))

Take(s, k) == SubSeq(s, 1, k)

RECURSIVE Concat(_)
Concat(ss) == IF ss = <<>> THEN <<>> ELSE Head(ss) \o Concat(Tail(ss))

IsPrefix(p, s) == Len(p) <= Len(s) /\ Take(s, Len(p)) = p

(***************************************************************************)
(* int.from_bytes(b, "big")                                                *)
(***************************************************************************)
RECURSIVE FromBytesLittle(_)
FromBytesLittle(b) ==
    IF b = <<>> THEN 0 ELSE Head(b) + 256 * FromBytesLittle(Tail(b))

RECURSIVE FromBytesBig(_)
FromBytesBig(b) ==
    IF b = <<>> THEN 0
    ELSE 256 * FromBytesBig(Take(b, Len(b) - 1)) + b[Len(b)]

(***************************************************************************)
(* The peer's side of the wire: RFC 6733 section 3 header, big-endian.     *)
(***************************************************************************)
U24Bytes(n) == <<(n \div 65536) % 256, (n \div 256) % 256, n % 256>>

U32Bytes(n) == <<(n \div 16777216) % 256, (n \div 65536) % 256,
                 (n \div 256) % 256, n % 256>>

EncodeHeader(len, flags, cmd, app, hbh, e2e) ==
    <<1>> \o U24Bytes(len) \o <<flags>> \o U24Bytes(cmd)
          \o U32Bytes(app) \o U32Bytes(hbh) \o U32Bytes(e2e)

\* The 24-bit message length a header carries in its bytes 1..3.
LengthField(f) == f[2] * 65536 + f[3] * 256 + f[4]

\* Body byte j of the i-th frame of a stream: a value that tells frames and
\* positions apart.
BodyPattern(i, n) == [j \in 1..n |-> 16 * i + j]

\* The i-th frame a peer writes with length field len: the 20-byte header and
\* the len - 20 bytes after it (none when len < 20).
PeerFrame(i, len) ==
    EncodeHeader(len, 0, 256 + i, 4, i, i) \o BodyPattern(i, Max(0, len - HEADER_LEN))

LenFields == {0, HEADER_LEN - 1, HEADER_LEN, HEADER_LEN + 1, HEADER_LEN + MaxBody}

(***************************************************************************)
(* recv_one_diameter(sock)                                                 *)
(***************************************************************************)
\* Faulty variant: one unbounded read, sock.recv(4096), for the header.
HeaderRequestUnbounded(h) == 4096

\* sock.recv(20 - len(header))
HeaderRequest(h) == HEADER_LEN - Len(h)

\* Faulty variant: the length field read in little-endian order.
TotalLenLittleEndian(h) == FromBytesLittle(SubSeq(h, 2, 4))

\* total_len = int.from_bytes(header[1:4], "big")
TotalLen(h) == FromBytesBig(SubSeq(h, 2, 4))

\* sock.recv((total_len - 20) - len(body))
BodyRequest(t, b) == (t - HEADER_LEN) - Len(b)

\* Faulty variant: the header loop goes on with 20 bytes read.
HeaderIncompleteOffByOne(h) == Len(h) <= HEADER_LEN

\* while len(header) < 20
HeaderIncomplete(h) == Len(h) < HEADER_LEN

\* while len(body) < (total_len - 20)
BodyIncomplete(t, b) == Len(b) < (t - HEADER_LEN)

\* sock.recv(n) with data in the buffer returns between 1 and n of its first bytes
RecvSizes(n) == 1..Min(n, Len(inbuf))

\* header = b""
RecvStart ==
    /\ header' = <<>>
    /\ body' = <<>>
    /\ total_len' = 0
    /\ rpc' = "header"
    /\ oneByte' = TRUE

\* header loop: chunk = sock.recv(20 - len(header)); header += chunk
HeaderRecvData ==
    /\ rpc = "header"
    /\ HeaderIncomplete(header)
    /\ \E k \in RecvSizes(HeaderRequest(header)) :
          /\ header' = header \o Take(inbuf, k)
          /\ inbuf' = Drop(inbuf, k)
          /\ oneByte' = (oneByte /\ k = 1)
    /\ UNCHANGED <<peerClosed, body, total_len, rpc, histVars, codecVars>>

\* header loop: if not chunk: raise ConnectionError(...)
HeaderRecvClosed ==
    /\ rpc = "header"
    /\ HeaderIncomplete(header)
    /\ inbuf = <<>>
    /\ peerClosed
    /\ rpc' = "ConnectionError"
    /\ UNCHANGED <<sockVars, header, body, total_len, oneByte, histVars, codecVars>>

\* header loop: sock.recv raises socket.timeout (sock.settimeout(10))
HeaderRecvTimeout ==
    /\ rpc = "header"
    /\ HeaderIncomplete(header)
    /\ inbuf = <<>>
    /\ ~peerClosed
    /\ rpc' = "timeout"
    /\ UNCHANGED <<sockVars, header, body, total_len, oneByte, histVars, codecVars>>

\* total_len = int.from_bytes(header[1:4], "big"); body = b""
HeaderDone ==
    /\ rpc = "header"
    /\ ~HeaderIncomplete(header)
    /\ total_len' = TotalLen(header)
    /\ body' = <<>>
    /\ rpc' = "body"
    /\ UNCHANGED <<sockVars, header, oneByte, histVars, codecVars>>

\* body loop: chunk = sock.recv((total_len - 20) - len(body)); body += chunk
BodyRecvData ==
    /\ rpc = "body"
    /\ BodyIncomplete(total_len, body)
    /\ \E k \in RecvSizes(BodyRequest(total_len, body)) :
          /\ body' = body \o Take(inbuf, k)
          /\ inbuf' = Drop(inbuf, k)
          /\ oneByte' = (oneByte /\ k = 1)
    /\ UNCHANGED <<peerClosed, header, total_len, rpc, histVars, codecVars>>

\* Faulty variant: on an empty chunk the body loop is left and what has been
\* read so far is returned.
BodyRecvClosedReturnsPartial ==
    /\ rpc = "body"
    /\ BodyIncomplete(total_len, body)
    /\ inbuf = <<>>
    /\ peerClosed
    /\ rpc' = "returned"
    /\ received' = Append(received, header \o body)
    /\ UNCHANGED <<sockVars, header, body, total_len, oneByte, calls, sent, wire,
                   mainVars, peerVars, codecVars>>

\* body loop: if not chunk: raise ConnectionError(...)
BodyRecvClosed ==
    /\ rpc = "body"
    /\ BodyIncomplete(total_len, body)
    /\ inbuf = <<>>
    /\ peerClosed
    /\ rpc' = "ConnectionError"
    /\ UNCHANGED <<sockVars, header, body, total_len, oneByte, histVars, codecVars>>

\* body loop: sock.recv raises socket.timeout
BodyRecvTimeout ==
    /\ rpc = "body"
    /\ BodyIncomplete(total_len, body)
    /\ inbuf = <<>>
    /\ ~peerClosed
    /\ rpc' = "timeout"
    /\ UNCHANGED <<sockVars, header, body, total_len, oneByte, histVars, codecVars>>

\* return header + body
ReturnMessage ==
    /\ rpc = "body"
    /\ ~BodyIncomplete(total_len, body)
    /\ rpc' = "returned"
    /\ received' = Append(received, header \o body)
    /\ UNCHANGED <<sockVars, header, body, total_len, oneByte, calls, sent, wire,
                   mainVars, peerVars, codecVars>>

RecvStep ==
    \/ HeaderRecvData
    \/ HeaderRecvClosed
    \/ HeaderRecvTimeout
    \/ HeaderDone
    \/ BodyRecvData
    \/ BodyRecvClosed
    \/ BodyRecvTimeout
    \/ ReturnMessage

(***************************************************************************)
(* The message library at rest: no message and no AVP has been built.      *)
(***************************************************************************)
NoAvp == [code |-> 0, vendor_id |-> <<>>, is_mandatory |-> FALSE,
          is_protected |-> FALSE, type |-> "None", n |-> 0, data |-> <<>>,
          avps |-> <<>>]

NoMessage == [name |-> "None", code |-> 0, is_request |-> FALSE,
              application_id |-> 0, length |-> 0, avps |-> <<>>]

NoResult == [ok |-> FALSE, avp |-> NoAvp, consumed |-> 0]

CodecIdle ==
    /\ cpc = "idle"
    /\ msg = NoMessage
    /\ msg_bytes = <<>>
    /\ parsed = NoMessage
    /\ avp = NoAvp
    /\ enc = <<>>
    /\ dec = NoResult
    /\ last_set = <<>>
    /\ added = <<>>

(***************************************************************************)
(***************************************************************************)
(* The message library the clients and the tests build on: the AVP codec.  *)
(* An Avp holds its code, its vendor id (<<>> when it has none, <<v>> when  *)
(* it has one), its flags, the type the dictionary gives its code, and its *)
(* value: a number in n, octets or code points in data, or member AVPs in  *)
(* avps.                                                                   *)
(***************************************************************************)
VENDOR_TGPP == 10415

\* a bytes value: the octets of an ASCII text
ORIGIN_HOST == <<109, 115, 99, 112, 48, 53, 46, 103, 112, 103, 119, 45, 48, 49>>

ORIGIN_REALM == <<119, 111, 114, 108, 100, 111, 118, 46, 99, 111, 109>>

\* a str value: its code points
PRODUCT_NAME == <<83, 82, 45, 79, 83, 45, 77, 71>>

SUB_E164 == <<52, 52, 55, 57, 50, 52, 57, 56, 49, 53, 57, 56, 53, 49>>

SUB_IMSI == <<50, 48, 52, 48, 52, 54, 57, 57, 54, 50, 53, 57, 56, 53, 49>>

SUB_NAI == <<50, 48, 52, 48, 52, 54, 57, 57, 54, 50, 53, 57, 56, 53, 49, 110,
             97, 105, 46, 101, 112, 99, 46, 109, 110, 99, 48, 48, 52, 46, 109,
             99, 99, 50, 48, 52, 46, 51, 103, 112, 112, 110, 101, 116, 119, 111,
             114, 107, 46, 111, 114, 103>>

NSAPI == <<5>>

\* The dictionary: the type of the value of an AVP code.
AvpType(code, vendor_id) ==
    IF vendor_id = <<>> THEN
        CASE code \in {279, 431, 437, 443, 446, 456} -> "Grouped"
          [] code \in {412, 414, 421} -> "Unsigned64"
          [] code \in {258, 259, 265, 266, 267, 268, 278, 299, 415, 416, 432,
                       450, 455} -> "Unsigned32"
          [] code \in {269, 281, 444, 461} -> "UTF8String"
          [] code = 257 -> "Address"
          [] OTHER -> "OctetString"
    ELSE IF vendor_id = <<VENDOR_TGPP>> THEN
        CASE code \in {873, 874} -> "Grouped"
          [] code \in {3, 872}   -> "Unsigned32"
          [] code = 1227         -> "Address"
          [] OTHER               -> "OctetString"
    ELSE "OctetString"

\* Avp.new(code, vendor_id, value=...), by the kind of value it is given
AvpNumber(code, vendor_id, value) ==
    [code |-> code, vendor_id |-> vendor_id, is_mandatory |-> TRUE,
     is_protected |-> FALSE, type |-> AvpType(code, vendor_id),
     n |-> value, data |-> <<>>, avps |-> <<>>]

AvpOctets(code, vendor_id, value) ==
    [code |-> code, vendor_id |-> vendor_id, is_mandatory |-> TRUE,
     is_protected |-> FALSE, type |-> AvpType(code, vendor_id),
     n |-> 0, data |-> value, avps |-> <<>>]

AvpGrouped(code, vendor_id, value) ==
    [code |-> code, vendor_id |-> vendor_id, is_mandatory |-> TRUE,
     is_protected |-> FALSE, type |-> AvpType(code, vendor_id),
     n |-> 0, data |-> <<>>, avps |-> value]

\* Zero octets to the next 4-byte boundary after len octets.
PadLen(len) == (4 - (len % 4)) % 4

Zeros(k) == [i \in 1..k |-> 0]

\* bit0 = vendor-specific, bit1 = mandatory, bit2 = protected, from the top
AvpFlags(a) ==
    (IF a.vendor_id # <<>> THEN 128 ELSE 0)
      + (IF a.is_mandatory THEN 64 ELSE 0)
      + (IF a.is_protected THEN 32 ELSE 0)

AvpHeaderLen(vendor_id) == IF vendor_id = <<>> THEN 8 ELSE 12

\* UTF-8 of code points below 2048
RECURSIVE Utf8Encode(_)
Utf8Encode(cps) ==
    IF cps = <<>> THEN <<>>
    ELSE (IF Head(cps) < 128 THEN <<Head(cps)>>
          ELSE <<192 + (Head(cps) \div 64), 128 + (Head(cps) % 64)>>)
         \o Utf8Encode(Tail(cps))

RECURSIVE Utf8Valid(_)
Utf8Valid(b) ==
    IF b = <<>> THEN TRUE
    ELSE IF b[1] < 128 THEN Utf8Valid(Tail(b))
    ELSE /\ b[1] >= 194 /\ b[1] < 224
         /\ Len(b) >= 2 /\ b[2] >= 128 /\ b[2] < 192
         /\ Utf8Valid(Drop(b, 2))

RECURSIVE Utf8Decode(_)
Utf8Decode(b) ==
    IF b = <<>> THEN <<>>
    ELSE IF b[1] < 128 THEN <<b[1]>> \o Utf8Decode(Tail(b))
    ELSE <<(b[1] - 192) * 64 + (b[2] - 128)>> \o Utf8Decode(Drop(b, 2))

\* encode(avp): code, flags, length (header and value, unpadded), vendor id
\* when there is one, the value, zero octets to a 4-byte boundary
RECURSIVE EncodeAvp(_), EncodeAvps(_)
EncodeValue(a) ==
    CASE a.type = "Grouped"    -> EncodeAvps(a.avps)
      [] a.type = "Unsigned32" -> U32Bytes(a.n)
      [] a.type = "Unsigned64" -> U32Bytes(0) \o U32Bytes(a.n)
      [] a.type = "Address"    -> <<0, 1>> \o a.data
      [] a.type = "UTF8String" -> Utf8Encode(a.data)
      [] OTHER                 -> a.data

EncodeAvp(a) ==
    LET value == EncodeValue(a)
        length == AvpHeaderLen(a.vendor_id) + Len(value)
    IN  U32Bytes(a.code) \o <<AvpFlags(a)>> \o U24Bytes(length)
          \o (IF a.vendor_id = <<>> THEN <<>> ELSE U32Bytes(a.vendor_id[1]))
          \o value \o Zeros(PadLen(length))

EncodeAvps(as) ==
    IF as = <<>> THEN <<>> ELSE EncodeAvp(Head(as)) \o EncodeAvps(Tail(as))

\* decode(bytes, offset) -> (avp, bytes_consumed), or MalformedAvp (ok FALSE)
\* Faulty variant: the padding after the value is left in the buffer.
AvpConsumedUnpadded(length, remaining) == Min(length, remaining)

\* The octets an AVP of that length takes of what remains of the buffer.
AvpConsumed(length, remaining) == Min(length + PadLen(length), remaining)

RECURSIVE DecodeAvp(_, _), DecodeAvps(_)
DecodeAvp(buf, off) ==
    IF Len(buf) - off < 8 THEN NoResult
    ELSE
      LET code == FromBytesBig(SubSeq(buf, off + 1, off + 4))
          flags == buf[off + 5]
          length == FromBytesBig(SubSeq(buf, off + 6, off + 8))
          vendor == (flags \div 128) % 2 = 1
          hdr == IF vendor THEN 12 ELSE 8
      IN
        IF length < hdr \/ off + length > Len(buf) THEN NoResult
        ELSE
          LET vendor_id == IF vendor
                           THEN <<FromBytesBig(SubSeq(buf, off + 9, off + 12))>>
                           ELSE <<>>
              v == SubSeq(buf, off + hdr + 1, off + length)
              type == AvpType(code, vendor_id)
              group == IF type = "Grouped" THEN DecodeAvps(v)
                       ELSE [ok |-> TRUE, avps |-> <<>>]
              ok == CASE type = "Grouped"    -> group.ok
                      [] type = "Unsigned32" -> Len(v) = 4
                      [] type = "Unsigned64" -> Len(v) = 8
                      [] type = "Address"    -> Len(v) = 6 /\ Take(v, 2) = <<0, 1>>
                      [] type = "UTF8String" -> Utf8Valid(v)
                      [] OTHER               -> TRUE
          IN
            IF ~ok THEN NoResult
            ELSE [ok |-> TRUE,
                  avp |-> [code |-> code,
                           vendor_id |-> vendor_id,
                           is_mandatory |-> (flags \div 64) % 2 = 1,
                           is_protected |-> (flags \div 32) % 2 = 1,
                           type |-> type,
                           n |-> IF type \in {"Unsigned32", "Unsigned64"}
                                 THEN FromBytesBig(v) ELSE 0,
                           data |-> CASE type = "Address" -> Drop(v, 2)
                                      [] type = "UTF8String" -> Utf8Decode(v)
                                      [] type = "OctetString" -> v
                                      [] OTHER -> <<>>,
                           avps |-> group.avps],
                  consumed |-> AvpConsumed(length, Len(buf) - off)]

\* The AVPs of a buffer one after the other, until it is consumed exactly.
DecodeAvps(buf) ==
    IF buf = <<>> THEN [ok |-> TRUE, avps |-> <<>>]
    ELSE
      LET first == DecodeAvp(buf, 0)
      IN  IF ~first.ok THEN [ok |-> FALSE, avps |-> <<>>]
          ELSE LET rest == DecodeAvps(Drop(buf, first.consumed))
               IN  [ok |-> rest.ok,
                    avps |-> IF rest.ok THEN <<first.avp>> \o rest.avps ELSE <<>>]

CommandName(code, is_request) ==
    CASE code = 257 /\ is_request  -> "CER"
      [] code = 257 /\ ~is_request -> "CEA"
      [] code = 272 /\ is_request  -> "CCR"
      [] code = 272 /\ ~is_request -> "CCA"
      [] OTHER -> "Message"

\* Message.from_bytes(b); NoMessage stands for the exception it raises
from_bytes(b) ==
    IF Len(b) < HEADER_LEN THEN NoMessage
    ELSE IF LengthField(b) < HEADER_LEN \/ LengthField(b) > Len(b) THEN NoMessage
    ELSE
      LET decoded == DecodeAvps(SubSeq(b, HEADER_LEN + 1, LengthField(b)))
          code == FromBytesBig(SubSeq(b, 6, 8))
          is_request == (b[5] \div 128) % 2 = 1
      IN  IF ~decoded.ok THEN NoMessage
          ELSE [name |-> CommandName(code, is_request), code |-> code,
                is_request |-> is_request,
                application_id |-> FromBytesBig(SubSeq(b, 9, 12)),
                length |-> LengthField(b), avps |-> decoded.avps]

(***************************************************************************)
(* The framer on its own: a peer has written up to MaxFrames frames, the   *)
(* last one possibly cut short, and then closed the connection or gone     *)
(* silent; the caller reads one message after the other.                   *)
(***************************************************************************)
FrameSeqs == UNION {[1..n -> LenFields] : n \in 1..MaxFrames}

FramesOf(lens) == [i \in 1..Len(lens) |-> PeerFrame(i, lens[i])]

InitFramer ==
    /\ \E lens \in FrameSeqs :
          /\ sent = FramesOf(lens)
          /\ \E cut \in 0..Len(sent[Len(lens)]) :
                wire = Take(Concat(sent), Len(Concat(sent)) - cut)
    /\ inbuf = wire
    /\ peerClosed \in BOOLEAN
    /\ header = <<>>
    /\ body = <<>>
    /\ total_len = 0
    /\ rpc = "idle"
    /\ oneByte = TRUE
    /\ calls = 0
    /\ received = <<>>
    /\ script = "framer"
    /\ pc = "reading"
    /\ sockOpen = TRUE
    /\ out = <<>>
    /\ clock = 0
    /\ start = 0
    /\ used_total = 0
    /\ elapsed = 0
    /\ increments = 0
    /\ answered = 0
    /\ unsolicited = 0
    /\ malformed = 0
    /\ pending = <<>>
    /\ CodecIdle

\* raw = recv_one_diameter(sock), once per frame the peer wrote
FramerCall ==
    /\ rpc \in {"idle", "returned"}
    /\ calls < Len(sent)
    /\ calls' = calls + 1
    /\ RecvStart
    /\ UNCHANGED <<sockVars, received, sent, wire, mainVars, peerVars, codecVars>>

NextFramer ==
    \/ FramerCall
    \/ RecvStep

SpecFramer == InitFramer /\ [][NextFramer]_vars

\* One call of recv_one_diameter: the peer has written one frame.
InitFramerOne == InitFramer /\ Len(sent) = 1

\* recv_one_diameter is sequential code: its next statement is executed, and
\* a sock.recv on a socket that has data, has been closed or has timed out
\* returns or raises.
SpecFramerOne == InitFramerOne /\ [][NextFramer]_vars /\ WF_vars(RecvStep)

(***************************************************************************)
(* The client scripts.  A message the client writes is a record of the     *)
(* fields the scripts set: kind, CC-Request-Type, CC-Request-Number, the   *)
(* Used-Service-Unit total, the 3GPP-Reporting-Reason and the header's     *)
(* hop-by-hop identifier.                                                  *)
(***************************************************************************)
DEFAULT_OCTETS == 512000

VALIDITY_SECONDS == 1800

SIM_STEP_BYTES == 50 * 1024

REQ_TOTAL_OCTETS == 10485

USED_I_TOTAL == 10485

USED_U_TOTAL == 10485

USED_T_TOTAL == 512000

\* How long one time.sleep of the simulation may last beyond its 0.2 s.
StallSeconds == 900

\* int(time.time()) & 0xFFFFFFFF: the mask keeps every value the clock takes
\* before the year 2106
HopByHop == clock

\* The attributes of the local identity a script sets on a
\* CapabilitiesExchangeRequest: <<>> for one it does not set, <<value>> for
\* one it sets.
NoIdentity ==
    [origin_host |-> <<>>, origin_realm |-> <<>>, host_ip_address |-> <<>>,
     vendor_id |-> <<>>, product_name |-> <<>>, auth_application_id |-> <<>>,
     inband_security_id |-> <<>>]

\* cer.as_bytes(): the scripts leave the CER's header identifiers at zero; a
\* CER has no MSCC
CerWith(identity) ==
    [kind |-> "CER", req_type |-> "NONE", req_no |-> 0, used |-> 0,
     rr |-> 0, hbh |-> 0, mscc |-> <<>>, rsu |-> 0, rg |-> 0,
     identity |-> identity]

\* build_cer() of send_and_terminate_ccr_when_data_exhausted.py
build_cer ==
    CerWith([NoIdentity EXCEPT !.origin_host = <<"mscp05.gpgw-01">>,
                               !.origin_realm = <<"worldov.com">>,
                               !.auth_application_id = <<"4">>,
                               !.inband_security_id = <<"NO_INBAND_SECURITY">>])

\* build_cer() of send_and_receive_ccr_i_ccr_u_ccr_t.py
build_cer_iut ==
    CerWith([origin_host |-> <<"mscp05.gpgw-01">>,
             origin_realm |-> <<"worldov.com">>,
             host_ip_address |-> <<"198.18.153.154">>,
             vendor_id |-> <<"6527">>,
             product_name |-> <<"SR-OS-MG">>,
             auth_application_id |-> <<"4">>,
             inband_security_id |-> <<"NO_INBAND_SECURITY">>])

\* build_cer() of send_data_ccr.py
build_cer_data ==
    CerWith([origin_host |-> <<"mscp05.gpgw-01">>,
             origin_realm |-> <<"worldov.com">>,
             host_ip_address |-> <<"198.18.153.109">>,
             vendor_id |-> <<"6527">>,
             product_name |-> <<"SR-OS-MG">>,
             auth_application_id |-> <<"4">>,
             inband_security_id |-> <<"NO_INBAND_SECURITY">>])

\* build_cer() of send_cer.py
build_cer_only ==
    CerWith([NoIdentity EXCEPT !.origin_host = <<"mscp05.gpgw-01">>,
                               !.origin_realm = <<"worldov.com">>,
                               !.host_ip_address = <<"198.18.153.109">>,
                               !.vendor_id = <<"6527">>,
                               !.product_name = <<"SR-OS-MG">>,
                               !.auth_application_id = <<"4">>])

RATING_GROUP == 8000

\* The members of the MSCC every client builds, the same for every request
\* type: Avp.new(456, value=[rsu, usu, rg, rr]) in build_mscc,
\* add_multiple_services_credit_control(rating_group, requested_service_unit,
\* used_service_unit, avp=[reporting reason]) in the two other clients
MsccMembers == {"Requested-Service-Unit", "Used-Service-Unit", "Rating-Group",
                "3GPP-Reporting-Reason"}

\* build_ccr(req_type, req_no, used_total, reporting_reason) of
\* send_and_terminate_ccr_when_data_exhausted.py, with
\* build_mscc(DEFAULT_OCTETS, used_total, reporting_reason) appended once
build_ccr(req_type, req_no, used, reporting_reason) ==
    [kind |-> "CCR", req_type |-> req_type, req_no |-> req_no, used |-> used,
     rr |-> reporting_reason, hbh |-> HopByHop, mscc |-> <<MsccMembers>>,
     rsu |-> DEFAULT_OCTETS, rg |-> RATING_GROUP,
     identity |-> NoIdentity]

\* Faulty variant: only the initial request is given reason 2.
IutReportingReasonInitialOnly(request_type) ==
    IF request_type = "INITIAL" THEN 2 ELSE 3

\* reporting_reason = 3 if request_type == UPDATE_REQUEST else 2
IutReportingReason(request_type) == IF request_type = "UPDATE" THEN 3 ELSE 2

\* build_ccr(request_type, request_number, used_total_octets) of
\* send_and_receive_ccr_i_ccr_u_ccr_t.py
build_ccr_iut(request_type, request_number, used_total_octets) ==
    [kind |-> "CCR", req_type |-> request_type, req_no |-> request_number,
     used |-> used_total_octets, rr |-> IutReportingReason(request_type),
     hbh |-> HopByHop, mscc |-> <<MsccMembers>>, rsu |-> REQ_TOTAL_OCTETS,
     rg |-> RATING_GROUP,
     identity |-> NoIdentity]

\* build_ccr_i() of send_data_ccr.py
build_ccr_i == [kind |-> "CCR", req_type |-> "INITIAL", req_no |-> 0,
                used |-> 10485760, rr |-> 2, hbh |-> HopByHop,
                mscc |-> <<MsccMembers>>, rsu |-> 10485760, rg |-> RATING_GROUP,
     identity |-> NoIdentity]

\* sock.sendall(payload); raw = recv_one_diameter(sock)
SendAndWait(payload, next) ==
    /\ out' = Append(out, payload)
    /\ calls' = calls + 1
    /\ RecvStart
    /\ pc' = next

\* recv_one_diameter has returned and its locals are gone
RecvReturned ==
    /\ header' = <<>>
    /\ body' = <<>>
    /\ total_len' = 0
    /\ rpc' = "idle"
    /\ oneByte' = TRUE

(***************************************************************************)
(* send_and_terminate_ccr_when_data_exhausted.py: main()                   *)
(***************************************************************************)
\* used_total = 0; start = time.time(); connect; send_and_wait(sock, build_cer(), "CER")
E_SendCer ==
    /\ script = "exhausted"
    /\ pc = "main"
    /\ used_total' = 0
    /\ start' = clock
    /\ sockOpen' = TRUE
    /\ SendAndWait(build_cer, "cea")
    /\ UNCHANGED <<sockVars, received, sent, wire, script, clock, elapsed, increments, peerVars, codecVars>>

\* Faulty variant: the CCR-I numbered 1.
E_ccr_i_FromOne == build_ccr("INITIAL", 1, 0, 2)

\* ccr_i = build_ccr(INITIAL_REQUEST, 0, used_total=0, reporting_reason=2)
E_ccr_i == build_ccr("INITIAL", 0, 0, 2)

\* send_and_wait(sock, ccr_i, "CCR-I")
E_SendCcrI ==
    /\ script = "exhausted"
    /\ pc = "cea"
    /\ rpc = "returned"
    /\ SendAndWait(E_ccr_i, "cca_i")
    /\ UNCHANGED <<sockVars, received, sent, wire, script, sockOpen, clock, start,
                   used_total, elapsed, increments, peerVars, codecVars>>

\* the answer to the CCR-I is logged and the simulation loop is entered
E_EnterLoop ==
    /\ script = "exhausted"
    /\ pc = "cca_i"
    /\ rpc = "returned"
    /\ RecvReturned
    /\ pc' = "loop"
    /\ UNCHANGED <<sockVars, calls, received, sent, wire, script, sockOpen, out,
                   clock, start, used_total, elapsed, increments, peerVars, codecVars>>

\* Faulty variant: the loop is left only when the usage has passed the quota.
E_QuotaExhaustedStrict ==
    /\ script = "exhausted"
    /\ pc = "loop"
    /\ elapsed' = clock - start
    /\ used_total > DEFAULT_OCTETS
    /\ pc' = "ccr_u"
    /\ UNCHANGED <<sockVars, recvVars, calls, received, sent, wire, script, sockOpen,
                   out, clock, start, used_total, increments, peerVars, codecVars>>

\* elapsed = int(time.time() - start); if used_total >= DEFAULT_OCTETS: break
E_QuotaExhausted ==
    /\ script = "exhausted"
    /\ pc = "loop"
    /\ elapsed' = clock - start
    /\ used_total >= DEFAULT_OCTETS
    /\ pc' = "ccr_u"
    /\ UNCHANGED <<sockVars, recvVars, calls, received, sent, wire, script, sockOpen,
                   out, clock, start, used_total, increments, peerVars, codecVars>>

\* Faulty variant: the validity timer is tested before the exhaustion.
E_ValidityExpiredFirst ==
    /\ script = "exhausted"
    /\ pc = "loop"
    /\ elapsed' = clock - start
    /\ elapsed' >= VALIDITY_SECONDS
    /\ pc' = "ccr_u"
    /\ UNCHANGED <<sockVars, recvVars, calls, received, sent, wire, script, sockOpen,
                   out, clock, start, used_total, increments, peerVars, codecVars>>

\* elapsed = int(time.time() - start); if elapsed >= VALIDITY_SECONDS: break
E_ValidityExpired ==
    /\ script = "exhausted"
    /\ pc = "loop"
    /\ elapsed' = clock - start
    /\ ~(used_total >= DEFAULT_OCTETS)
    /\ elapsed' >= VALIDITY_SECONDS
    /\ pc' = "ccr_u"
    /\ UNCHANGED <<sockVars, recvVars, calls, received, sent, wire, script, sockOpen,
                   out, clock, start, used_total, increments, peerVars, codecVars>>

\* used_total = min(DEFAULT_OCTETS, used_total + SIM_STEP_BYTES); time.sleep(SIM_SLEEP_SEC)
E_Simulate ==
    /\ script = "exhausted"
    /\ pc = "loop"
    /\ elapsed' = clock - start
    /\ ~(used_total >= DEFAULT_OCTETS)
    /\ ~(elapsed' >= VALIDITY_SECONDS)
    /\ used_total' = Min(DEFAULT_OCTETS, used_total + SIM_STEP_BYTES)
    /\ \E d \in {0, StallSeconds} : clock' = clock + d
    /\ increments' = increments + 1
    /\ UNCHANGED <<sockVars, recvVars, calls, received, sent, wire, script, pc,
                   sockOpen, out, start, peerVars, codecVars>>

\* Faulty variant: the usage reported runs one simulation step ahead.
E_ccr_u_StepAhead == build_ccr("UPDATE", 1, used_total + SIM_STEP_BYTES, 3)

\* Faulty variant: the reason follows the validity timer first.
E_ccr_u_TimerFirst ==
    build_ccr("UPDATE", 1, used_total, IF elapsed >= VALIDITY_SECONDS THEN 4 ELSE 3)

\* ccr_u = build_ccr(UPDATE_REQUEST, 1, used_total=used_total, reporting_reason=3)
E_ccr_u == build_ccr("UPDATE", 1, used_total, 3)

\* send_and_wait(sock, ccr_u, "CCR-U(QUOTA_EXHAUSTED)")
E_SendCcrU ==
    /\ script = "exhausted"
    /\ pc = "ccr_u"
    /\ SendAndWait(E_ccr_u, "cca_u")
    /\ UNCHANGED <<sockVars, received, sent, wire, script, sockOpen, clock, start,
                   used_total, elapsed, increments, peerVars, codecVars>>

\* Faulty variant: the CCR-T reports the usage as at session creation.
E_ccr_t_UsageReset == build_ccr("TERMINATION", 2, 0, 2)

\* ccr_t = build_ccr(TERMINATION_REQUEST, 2, used_total=used_total, reporting_reason=2)
E_ccr_t == build_ccr("TERMINATION", 2, used_total, 2)

\* send_and_wait(sock, ccr_t, "CCR-T")
E_SendCcrT ==
    /\ script = "exhausted"
    /\ pc = "cca_u"
    /\ rpc = "returned"
    /\ SendAndWait(E_ccr_t, "cca_t")
    /\ UNCHANGED <<sockVars, received, sent, wire, script, sockOpen, clock, start,
                   used_total, elapsed, increments, peerVars, codecVars>>

\* Faulty variant: after the answer to the CCR-T the termination is tried again.
E_DoneRetriesTermination ==
    /\ script = "exhausted"
    /\ pc = "cca_t"
    /\ rpc = "returned"
    /\ pc' = "cca_u"
    /\ UNCHANGED <<sockVars, recvVars, calls, received, sent, wire, script, sockOpen,
                   out, clock, start, used_total, elapsed, increments, peerVars, codecVars>>

\* logging.info("Done. ..."); the with block closes the socket
E_Done ==
    /\ script = "exhausted"
    /\ pc = "cca_t"
    /\ rpc = "returned"
    /\ RecvReturned
    /\ pc' = "done"
    /\ sockOpen' = FALSE
    /\ UNCHANGED <<sockVars, calls, received, sent, wire, script, out, clock, start,
                   used_total, elapsed, increments, peerVars, codecVars>>

\* ans = Message.from_bytes(raw) of the message recv_one_diameter returned last
Decodes == from_bytes(received[Len(received)]) # NoMessage

(***************************************************************************)
(* send_and_receive_ccr_i_ccr_u_ccr_t.py: main()                           *)
(***************************************************************************)
\* connect; send_and_recv(sock, build_cer(), "CER")
R_SendCer ==
    /\ script = "iut"
    /\ pc = "main"
    /\ sockOpen' = TRUE
    /\ SendAndWait(build_cer_iut, "cea")
    /\ UNCHANGED <<sockVars, received, sent, wire, script, clock, start, used_total,
                   elapsed, increments, peerVars, codecVars>>

\* ccr_i = build_ccr(INITIAL_REQUEST, 0, USED_I_TOTAL)
R_ccr_i == build_ccr_iut("INITIAL", 0, USED_I_TOTAL)

\* send_and_recv(sock, ccr_i, "CCR-I")
R_SendCcrI ==
    /\ script = "iut"
    /\ pc = "cea"
    /\ rpc = "returned"
    /\ Decodes
    /\ SendAndWait(R_ccr_i, "cca_i")
    /\ UNCHANGED <<sockVars, received, sent, wire, script, sockOpen, clock, start,
                   used_total, elapsed, increments, peerVars, codecVars>>

\* send_and_recv returns the answer; time.sleep(1)
R_Sleep ==
    /\ script = "iut"
    /\ pc \in {"cca_i", "cca_u"}
    /\ rpc = "returned"
    /\ Decodes
    /\ RecvReturned
    /\ clock' = clock + 1
    /\ pc' = IF pc = "cca_i" THEN "ccr_u" ELSE "ccr_t"
    /\ UNCHANGED <<sockVars, calls, received, sent, wire, script, sockOpen, out,
                   start, used_total, elapsed, increments, peerVars, codecVars>>

\* ccr_u = build_ccr(UPDATE_REQUEST, 1, USED_U_TOTAL)
R_ccr_u == build_ccr_iut("UPDATE", 1, USED_U_TOTAL)

\* send_and_recv(sock, ccr_u, "CCR-U")
R_SendCcrU ==
    /\ script = "iut"
    /\ pc = "ccr_u"
    /\ SendAndWait(R_ccr_u, "cca_u")
    /\ UNCHANGED <<sockVars, received, sent, wire, script, sockOpen, clock, start,
                   used_total, elapsed, increments, peerVars, codecVars>>

\* ccr_t = build_ccr(TERMINATION_REQUEST, 2, USED_T_TOTAL)
R_ccr_t == build_ccr_iut("TERMINATION", 2, USED_T_TOTAL)

\* send_and_recv(sock, ccr_t, "CCR-T")
R_SendCcrT ==
    /\ script = "iut"
    /\ pc = "ccr_t"
    /\ SendAndWait(R_ccr_t, "cca_t")
    /\ UNCHANGED <<sockVars, received, sent, wire, script, sockOpen, clock, start,
                   used_total, elapsed, increments, peerVars, codecVars>>

\* the last send_and_recv returns; the with block closes the socket
R_Done ==
    /\ script = "iut"
    /\ pc = "cca_t"
    /\ rpc = "returned"
    /\ Decodes
    /\ RecvReturned
    /\ pc' = "done"
    /\ sockOpen' = FALSE
    /\ UNCHANGED <<sockVars, calls, received, sent, wire, script, out, clock, start,
                   used_total, elapsed, increments, peerVars, codecVars>>

(***************************************************************************)
(* send_data_ccr.py: main()                                                *)
(***************************************************************************)
\* connect; sock.sendall(build_cer()); cea_raw = recv_one_diameter(sock)
D_SendCer ==
    /\ script = "data"
    /\ pc = "main"
    /\ sockOpen' = TRUE
    /\ SendAndWait(build_cer_data, "cea")
    /\ UNCHANGED <<sockVars, received, sent, wire, script, clock, start, used_total,
                   elapsed, increments, peerVars, codecVars>>

\* ccr = build_ccr_i(); sock.sendall(ccr); cca_raw = recv_one_diameter(sock)
D_SendCcrI ==
    /\ script = "data"
    /\ pc = "cea"
    /\ rpc = "returned"
    /\ Decodes
    /\ SendAndWait(build_ccr_i, "cca_i")
    /\ UNCHANGED <<sockVars, received, sent, wire, script, sockOpen, clock, start,
                   used_total, elapsed, increments, peerVars, codecVars>>

\* the CCA is logged; the with block closes the socket
D_Done ==
    /\ script = "data"
    /\ pc = "cca_i"
    /\ rpc = "returned"
    /\ Decodes
    /\ RecvReturned
    /\ pc' = "done"
    /\ sockOpen' = FALSE
    /\ UNCHANGED <<sockVars, calls, received, sent, wire, script, out, clock, start,
                   used_total, elapsed, increments, peerVars, codecVars>>

\* Message.from_bytes(raw) raises in send_and_recv, or in main() of
\* send_data_ccr.py, where nothing catches it: the exception leaves main() and
\* the with block closes the socket.
DecodeRaises ==
    /\ script \in {"iut", "data"}
    /\ pc \notin {"failed", "done"}
    /\ rpc = "returned"
    /\ ~Decodes
    /\ pc' = "failed"
    /\ sockOpen' = FALSE
    /\ UNCHANGED <<sockVars, recvVars, calls, received, sent, wire, script, out,
                   clock, start, used_total, elapsed, increments, peerVars, codecVars>>

\* Faulty variant: the exception leaves main() and the socket stays open.
MainRaisesKeepsOpen ==
    /\ script \in {"exhausted", "iut", "data"}
    /\ pc \notin {"failed", "done"}
    /\ rpc \in {"ConnectionError", "timeout"}
    /\ pc' = "failed"
    /\ UNCHANGED <<sockVars, recvVars, calls, received, sent, wire, script, out,
                   sockOpen, clock, start, used_total, elapsed, increments, peerVars, codecVars>>

\* Faulty variant: the request whose answer did not come is written again.
MainRaisesResends ==
    /\ script \in {"exhausted", "iut", "data"}
    /\ pc \notin {"failed", "done"}
    /\ rpc \in {"ConnectionError", "timeout"}
    /\ SendAndWait(out[Len(out)], pc)
    /\ UNCHANGED <<sockVars, received, sent, wire, script, sockOpen, clock, start,
                   used_total, elapsed, increments, peerVars, codecVars>>

\* An exception of recv_one_diameter leaves main(); the with block closes the socket.
MainRaises ==
    /\ script \in {"exhausted", "iut", "data"}
    /\ pc \notin {"failed", "done"}
    /\ rpc \in {"ConnectionError", "timeout"}
    /\ pc' = "failed"
    /\ sockOpen' = FALSE
    /\ UNCHANGED <<sockVars, recvVars, calls, received, sent, wire, script, out,
                   clock, start, used_total, elapsed, increments, peerVars, codecVars>>

(***************************************************************************)
(* send_cer.py: main()                                                     *)
(***************************************************************************)
\* cer_bytes = build_cer(); connect; sock.sendall(cer_bytes)
C_SendCer ==
    /\ script = "cer"
    /\ pc = "main"
    /\ sockOpen' = TRUE
    /\ out' = Append(out, build_cer_only)
    /\ pc' = "dns"
    /\ UNCHANGED <<sockVars, recvVars, calls, received, sent, wire, script, clock,
                   start, used_total, elapsed, increments, peerVars, codecVars>>

\* the DNS and port test fails: return, and the with block closes the socket
C_DnsFailed ==
    /\ script = "cer"
    /\ pc = "dns"
    /\ pc' = "done"
    /\ sockOpen' = FALSE
    /\ UNCHANGED <<sockVars, recvVars, calls, received, sent, wire, script, out,
                   clock, start, used_total, elapsed, increments, peerVars, codecVars>>

\* data = sock.recv(4096); if data: "Received %d bytes (likely CEA)"; sleep(1); close
C_RecvData ==
    /\ script = "cer"
    /\ pc = "dns"
    /\ \E k \in RecvSizes(4096) :
          /\ received' = Append(received, Take(inbuf, k))
          /\ inbuf' = Drop(inbuf, k)
    /\ clock' = clock + 1
    /\ pc' = "done"
    /\ sockOpen' = FALSE
    /\ UNCHANGED <<peerClosed, recvVars, calls, sent, wire, script, out, start,
                   used_total, elapsed, increments, peerVars, codecVars>>

\* data = sock.recv(4096) is empty, or socket.timeout: a warning; sleep(1); close
C_RecvNothing ==
    /\ script = "cer"
    /\ pc = "dns"
    /\ inbuf = <<>>
    /\ clock' = clock + 1
    /\ pc' = "done"
    /\ sockOpen' = FALSE
    /\ UNCHANGED <<sockVars, recvVars, calls, received, sent, wire, script, out,
                   start, used_total, elapsed, increments, peerVars, codecVars>>

(***************************************************************************)
(* The peer of the connection: it answers the client's requests in order,  *)
(* with a success or a failure result code, may send a request of its own  *)
(* (a Device-Watchdog-Request) at any time, and may close the connection.  *)
(***************************************************************************)
MaxUnsolicited == 1
MaxMalformed == 1

ResultCodes == {2001, 5012}

\* Result-Code AVP: code 268, flags M, length 12, Unsigned32 value
ResultCodeAvp(rc) == U32Bytes(268) \o <<64>> \o U24Bytes(12) \o U32Bytes(rc)

\* Command code of the answer to a request: CEA 257, CCA 272
AnswerCommand(req) == IF req.kind = "CER" THEN 257 ELSE 272

\* Quotas a peer grants in the answer to a CCR-I: none (0), the client's
\* default, more than it.
Grants == {0, 512000, 1024000}

\* Multiple-Services-Credit-Control (456) holding Granted-Service-Unit (431)
\* holding CC-Total-Octets (421, Unsigned64); nothing when no quota is granted
GrantAvp(g) ==
    IF g = 0 THEN <<>>
    ELSE U32Bytes(456) \o <<64>> \o U24Bytes(32)
            \o U32Bytes(431) \o <<64>> \o U24Bytes(24)
            \o U32Bytes(421) \o <<64>> \o U24Bytes(16)
            \o U32Bytes(0) \o U32Bytes(g)

\* The grants the peer may put into its answer to req: a quota is granted in
\* the successful answer to a CCR-I
GrantChoices(req, rc) ==
    IF req.kind = "CCR" /\ req.req_type = "INITIAL" /\ rc = 2001 THEN Grants ELSE {0}

\* The answer to req with result code rc and granted quota g: the request's
\* hop-by-hop identifier, the R flag clear
AnswerFrame(req, rc, g) ==
    EncodeHeader(HEADER_LEN + 12 + Len(GrantAvp(g)), 0, AnswerCommand(req), 4,
                 req.hbh, 0)
        \o ResultCodeAvp(rc) \o GrantAvp(g)

\* A Device-Watchdog-Request (280) of the peer: R flag set, its own identifier
WatchdogFrame == EncodeHeader(HEADER_LEN, 128, 280, 0, 2147483647, 0)

\* Where the transport may split a frame: after its first byte, one byte into
\* its body, or not at all.
SegmentSizes(frame) == {k \in {1, HEADER_LEN + 1, Len(frame)} : k <= Len(frame)}

\* The peer writes frame; its first k bytes arrive now, the others later.
PeerWrites(frame, k) ==
    /\ inbuf' = inbuf \o Take(frame, k)
    /\ wire' = wire \o Take(frame, k)
    /\ pending' = Drop(frame, k)
    /\ sent' = Append(sent, frame)

\* The client is blocked in a read with nothing left to read.
ClientStarved ==
    /\ inbuf = <<>>
    /\ \/ rpc \in {"header", "body"}
       \/ script = "cer" /\ pc = "dns"

\* The client is about to read the first byte of an inbound message.
ClientAtMessageStart ==
    \/ rpc = "header" /\ header = <<>>
    \/ script = "cer" /\ pc = "dns"

\* The answer to the oldest unanswered request.  As with PeerUnsolicited, an
\* answer that arrives behind bytes the client still has to read is read no
\* differently from one that arrives when those bytes are read, so the model
\* lets it arrive then.
PeerAnswer ==
    /\ sockOpen
    /\ ~peerClosed
    /\ pending = <<>>
    /\ inbuf = <<>>
    /\ answered < Len(out)
    /\ \E rc \in ResultCodes :
          \E g \in GrantChoices(out[answered + 1], rc) :
              \E k \in SegmentSizes(AnswerFrame(out[answered + 1], rc, g)) :
                  PeerWrites(AnswerFrame(out[answered + 1], rc, g), k)
    /\ answered' = answered + 1
    /\ UNCHANGED <<peerClosed, recvVars, calls, received, mainVars, unsolicited,
                   malformed, codecVars>>

\* An answer whose Result-Code AVP declares 16 octets where the message has
\* 12 left: the frame is whole, its AVP is malformed.
MalformedAnswerFrame(req) ==
    EncodeHeader(HEADER_LEN + 12, 0, AnswerCommand(req), 4, req.hbh, 0)
        \o U32Bytes(268) \o <<64>> \o U24Bytes(16) \o U32Bytes(2001)

\* The answer to the oldest unanswered request is one that cannot be decoded.
\* The framer does not look at the AVPs, so the ways the transport may split a
\* frame are left to the answers that can be decoded; this one arrives whole.
\* A run has malformed answers or messages of the peer's own, not both.
PeerMalformedAnswer ==
    /\ sockOpen
    /\ ~peerClosed
    /\ pending = <<>>
    /\ inbuf = <<>>
    /\ answered < Len(out)
    /\ malformed < MaxMalformed
    /\ unsolicited = 0
    /\ PeerWrites(MalformedAnswerFrame(out[answered + 1]),
                  Len(MalformedAnswerFrame(out[answered + 1])))
    /\ answered' = answered + 1
    /\ malformed' = malformed + 1
    /\ UNCHANGED <<peerClosed, recvVars, calls, received, mainVars, unsolicited,
                   codecVars>>

\* A message of the peer's own.  Bytes appended behind a message the client is
\* reading do not change how it is read, so the model lets such a message
\* arrive while the client stands at the start of a message.
PeerUnsolicited ==
    /\ sockOpen
    /\ ~peerClosed
    /\ pending = <<>>
    /\ ClientAtMessageStart
    /\ unsolicited < MaxUnsolicited
    /\ malformed = 0
    /\ PeerWrites(WatchdogFrame, Len(WatchdogFrame))
    /\ unsolicited' = unsolicited + 1
    /\ UNCHANGED <<peerClosed, recvVars, calls, received, mainVars, answered,
                   malformed, codecVars>>

\* The rest of a split frame arrives.
PeerDelivers ==
    /\ sockOpen
    /\ ~peerClosed
    /\ pending # <<>>
    /\ inbuf' = inbuf \o pending
    /\ wire' = wire \o pending
    /\ pending' = <<>>
    /\ UNCHANGED <<peerClosed, recvVars, calls, received, sent, mainVars,
                   answered, unsolicited, malformed, codecVars>>

\* The peer's side of the connection ends; bytes under way are lost.  The
\* client sees the end only when it has read what arrived before, so the model
\* lets it happen then.
PeerClose ==
    /\ sockOpen
    /\ ~peerClosed
    /\ ClientStarved
    /\ peerClosed' = TRUE
    /\ UNCHANGED <<inbuf, recvVars, histVars, codecVars>>

(***************************************************************************)
(* One run of one client against the peer.                                 *)
(***************************************************************************)
Scripts == {"exhausted", "iut", "data", "cer"}

Init ==
    /\ script \in Scripts
    /\ pc = "main"
    /\ sockOpen = FALSE
    /\ out = <<>>
    /\ clock = 0
    /\ start = 0
    /\ used_total = 0
    /\ elapsed = 0
    /\ increments = 0
    /\ inbuf = <<>>
    /\ peerClosed = FALSE
    /\ header = <<>>
    /\ body = <<>>
    /\ total_len = 0
    /\ rpc = "idle"
    /\ oneByte = TRUE
    /\ calls = 0
    /\ received = <<>>
    /\ sent = <<>>
    /\ wire = <<>>
    /\ answered = 0
    /\ unsolicited = 0
    /\ malformed = 0
    /\ pending = <<>>
    /\ CodecIdle

Next ==
    \/ E_SendCer
    \/ E_SendCcrI
    \/ E_EnterLoop
    \/ E_QuotaExhausted
    \/ E_ValidityExpired
    \/ E_Simulate
    \/ E_SendCcrU
    \/ E_SendCcrT
    \/ E_Done
    \/ R_SendCer
    \/ R_SendCcrI
    \/ R_Sleep
    \/ R_SendCcrU
    \/ R_SendCcrT
    \/ R_Done
    \/ D_SendCer
    \/ D_SendCcrI
    \/ D_Done
    \/ C_SendCer
    \/ C_DnsFailed
    \/ C_RecvData
    \/ C_RecvNothing
    \/ MainRaises
    \/ DecodeRaises
    \/ RecvStep
    \/ PeerAnswer
    \/ PeerMalformedAnswer
    \/ PeerUnsolicited
    \/ PeerDelivers
    \/ PeerClose

Spec == Init /\ [][Next]_vars

(***************************************************************************)
(* The quota simulator on its own: main() of                               *)
(* send_and_terminate_ccr_when_data_exhausted.py from the return of the    *)
(* answer to the CCR-I to the write of the CCR-U.  The peer has answered   *)
(* the CER and the CCR-I, each answer arrived and was read whole; the main *)
(* thread runs on, and nothing is assumed of the clock.                    *)
(***************************************************************************)
InitSim ==
    /\ script = "exhausted"
    /\ pc = "cca_i"
    /\ sockOpen = TRUE
    /\ clock = 0
    /\ start = 0
    /\ used_total = 0
    /\ elapsed = 0
    /\ increments = 0
    /\ out = <<build_cer, E_ccr_i>>
    /\ \E rc1 \in ResultCodes, rc2 \in ResultCodes :
          \E g \in GrantChoices(E_ccr_i, rc2) :
              sent = <<AnswerFrame(build_cer, rc1, 0), AnswerFrame(E_ccr_i, rc2, g)>>
    /\ received = sent
    /\ wire = Concat(sent)
    /\ inbuf = <<>>
    /\ peerClosed = FALSE
    /\ header = Take(sent[2], HEADER_LEN)
    /\ body = Drop(sent[2], HEADER_LEN)
    /\ total_len = Len(sent[2])
    /\ rpc = "returned"
    /\ oneByte = FALSE
    /\ calls = 2
    /\ answered = 2
    /\ unsolicited = 0
    /\ malformed = 0
    /\ pending = <<>>
    /\ CodecIdle

NextSim ==
    \/ E_EnterLoop
    \/ E_QuotaExhausted
    \/ E_ValidityExpired
    \/ E_Simulate
    \/ E_SendCcrU

\* main() is a sequential program: its next statement is executed, and
\* time.sleep(SIM_SLEEP_SEC) returns.
SpecSim == InitSim /\ [][NextSim]_vars /\ WF_vars(NextSim)

(***************************************************************************)
(* Properties of the framer.                                               *)
(***************************************************************************)
\* Bytes of the stream the client has read so far.
Consumed == Len(wire) - Len(inbuf)

\* Offset in the stream just after the i-th frame.
FrameEnd(i) == Len(Concat(Take(sent, i)))

\* A frame whose length field covers at least its own header.
WellFormed(f) == LengthField(f) >= HEADER_LEN /\ Len(f) = LengthField(f)

\* The first i frames are well formed and have been delivered completely.
Delivered(i) ==
    /\ Len(sent) >= i
    /\ Len(wire) >= FrameEnd(i)
    /\ \A j \in 1..i : WellFormed(sent[j])

\* C1: a message of encoded length L >= 20 at the head of the stream, split by
\* the transport into any non-empty chunks, is returned by recv_one_diameter
\* as exactly its L bytes in order: the first call never fails, what it has
\* read so far is always a prefix of the message, and what it returns is the
\* message.
C1_FramingReconstructs ==
    Delivered(1) =>
        /\ (Len(received) >= 1 => received[1] = sent[1])
        /\ (calls = 1 =>
              /\ rpc \notin {"ConnectionError", "timeout"}
              /\ IsPrefix(header \o body, sent[1]))

C1_Witness ==
    /\ Delivered(1)
    /\ calls = 1
    /\ rpc = "returned"
    /\ oneByte
    /\ Len(sent[1]) = HEADER_LEN + MaxBody
    /\ received = <<sent[1]>>

\* C2: with two messages back to back in the stream, every recv asks for no
\* more bytes than remain of the current message; when the first message has
\* been returned the stream stands at the first byte of the second, and the
\* second call returns the second message intact.
C2_NoOverRead ==
    (Delivered(2) /\ calls \in 1..2) =>
        /\ (rpc = "header" /\ HeaderIncomplete(header) =>
              HeaderRequest(header) <= FrameEnd(calls) - Consumed)
        /\ (rpc = "body" /\ BodyIncomplete(total_len, body) =>
              BodyRequest(total_len, body) <= FrameEnd(calls) - Consumed)
        /\ (calls = 1 /\ rpc = "returned" =>
              /\ Consumed = FrameEnd(1)
              /\ IsPrefix(sent[2], inbuf))
        /\ (Len(received) >= 2 => received[2] = sent[2])

C2_Witness ==
    /\ Delivered(2)
    /\ Len(sent[1]) > HEADER_LEN
    /\ Len(sent[2]) > HEADER_LEN
    /\ inbuf = <<>>
    /\ received = <<sent[1], sent[2]>>

\* C3: every byte string recv_one_diameter returns is as long as the 24-bit
\* length field in bytes 1..3 of its own header says, for every value of that
\* field.
C3_SizeIsLengthField ==
    \A i \in 1..Len(received) : Len(received[i]) = LengthField(received[i])

\* The connection is closed and a message is only partly read.
ClosedEarly ==
    /\ peerClosed
    /\ inbuf = <<>>
    /\ \/ rpc = "header" /\ Len(header) < HEADER_LEN
       \/ rpc = "body" /\ Len(body) < total_len - HEADER_LEN

\* C4: when the connection closes before the 20 header bytes or before the
\* length-20 body bytes have arrived, recv_one_diameter raises the
\* connection-closed error, and nothing it ever returns is a partial message.
C4_ClosedRaises ==
    [][/\ ClosedEarly => rpc' = "ConnectionError" /\ received' = received
       /\ received' # received =>
             /\ Len(received') = Len(received) + 1
             /\ Len(received'[Len(received')]) >= HEADER_LEN
             /\ Len(received'[Len(received')]) >= LengthField(received'[Len(received')])
      ]_vars

C4_Witness ==
    /\ rpc = "ConnectionError"
    /\ peerClosed
    /\ Len(header) = HEADER_LEN
    /\ body # <<>>
    /\ BodyIncomplete(total_len, body)

(***************************************************************************)
(* Properties of the clients.  What a message on the wire is, is read off  *)
(* its bytes: command code in bytes 5..7, Result-Code in the first AVP.    *)
(***************************************************************************)
CommandCodeOf(raw) ==
    IF Len(raw) >= HEADER_LEN THEN raw[6] * 65536 + raw[7] * 256 + raw[8] ELSE -1

IsRequest(raw) == Len(raw) >= HEADER_LEN /\ raw[5] >= 128

ResultCodeOf(raw) ==
    IF Len(raw) >= HEADER_LEN + 12 /\ SubSeq(raw, 21, 24) = U32Bytes(268)
    THEN ((raw[29] * 256 + raw[30]) * 256 + raw[31]) * 256 + raw[32]
    ELSE -1

IsAnswerTo(raw, cmd) == CommandCodeOf(raw) = cmd /\ ~IsRequest(raw)

IsCcr(m) == m.kind = "CCR"

IsCca(raw) == IsAnswerTo(raw, 272)

\* The CCRs the client has written, in order.
CcrsOut == SelectSeq(out, IsCcr)

\* The Credit-Control answers the client has taken from the connection, in order.
CcasIn == SelectSeq(received, IsCca)

\* C5: every message a client takes from the connection is one whole frame of
\* the peer, the i-th taken being the i-th written: none is the front part of
\* a frame that arrived in several segments, none runs into the frame behind.
C5_WholeMessages ==
    \A i \in 1..Len(received) : i <= Len(sent) /\ received[i] = sent[i]

\* C6: the CC-Request-Numbers written in one session are 0 on the CCR-I and
\* on every later CCR the number of the CCR before it plus 1.
C6_RequestNumbers ==
    /\ Len(CcrsOut) >= 1 =>
          CcrsOut[1].req_type = "INITIAL" /\ CcrsOut[1].req_no = 0
    /\ \A i \in 2..Len(CcrsOut) : CcrsOut[i].req_no = CcrsOut[i - 1].req_no + 1

C6_Witness ==
    /\ Len(CcrsOut) = 3
    /\ CcrsOut[2].req_type = "UPDATE"
    /\ CcrsOut[3].req_type = "TERMINATION"
    /\ pc = "done"

\* C7: a CCR is written only when the peer's answer to every CCR written
\* before it has been received: the peer answers in order, so as many
\* Credit-Control answers have been taken as CCRs were written.
C7_OneOutstanding ==
    [][(Len(CcrsOut') > Len(CcrsOut) /\ Len(CcrsOut) >= 1) =>
           Len(CcasIn) >= Len(CcrsOut)]_vars

\* The n-th CCR was a CCR-I or CCR-U and its answer, the n-th Credit-Control
\* answer received, carries a result code other than 2001.
RejectedAt(n) ==
    /\ n <= Len(CcrsOut)
    /\ n <= Len(CcasIn)
    /\ CcrsOut[n].req_type \in {"INITIAL", "UPDATE"}
    /\ ResultCodeOf(CcasIn[n]) # 2001

Rejected == \E n \in 1..Len(CcasIn) : RejectedAt(n)

\* C8: once a CCA with a non-success result code has been received for a
\* CCR-I or CCR-U, no further CCR is written.
C8_RejectedIsFinal ==
    [][Rejected => CcrsOut' = CcrsOut]_vars

\* The first inbound message is a CEA with result code 2001.
Negotiated ==
    /\ Len(received) >= 1
    /\ IsAnswerTo(received[1], 257)
    /\ ResultCodeOf(received[1]) = 2001

\* C9: when the message received while awaiting the CEA is not a CEA with
\* result code 2001, the exchange has failed and no session is started: no
\* CCR is written.
C9_FailedStartsNoSession ==
    (Len(received) >= 1 /\ ~Negotiated) => CcrsOut = <<>>

\* The quota simulator left its loop with the quota used up and the validity
\* time over, and the CCR-U has been written.
BothDue(i) ==
    /\ script = "exhausted"
    /\ i <= Len(CcrsOut)
    /\ CcrsOut[i].req_type = "UPDATE"
    /\ CcrsOut[i].used >= DEFAULT_OCTETS
    /\ elapsed >= VALIDITY_SECONDS

\* C10: a CCR-U written when used >= granted and elapsed >= validity both
\* hold carries 3GPP-Reporting-Reason QUOTA_EXHAUSTED (3).
C10_ExhaustionPrecedence ==
    \A i \in 1..Len(CcrsOut) : BothDue(i) => CcrsOut[i].rr = 3

C10_Witness ==
    /\ BothDue(2)
    /\ CcrsOut[2].rr = 3
    /\ CcrsOut[2].used = DEFAULT_OCTETS

\* The i-th CCR is the CCR-U of the quota simulator.
IsSimulatorUpdate(i) ==
    /\ script = "exhausted"
    /\ i <= Len(CcrsOut)
    /\ CcrsOut[i].req_type = "UPDATE"

\* C11: the reporting reason of a CCR-U tells what triggered it: it is
\* QUOTA_EXHAUSTED (3) only when the usage reported has reached the quota, and
\* it is not QUOTA_EXHAUSTED when the report was triggered by the validity
\* time alone, with the usage below the quota.
C11_ReasonReflectsTrigger ==
    \A i \in 1..Len(CcrsOut) :
        IsSimulatorUpdate(i) =>
            /\ CcrsOut[i].rr = 3 => CcrsOut[i].used >= DEFAULT_OCTETS
            /\ (CcrsOut[i].used < DEFAULT_OCTETS /\ elapsed >= VALIDITY_SECONDS) =>
                  CcrsOut[i].rr # 3

\* The quota a Credit-Control answer grants: CC-Total-Octets of the
\* Granted-Service-Unit of its MSCC, 0 when it carries none.
GrantOf(raw) ==
    IF /\ Len(raw) >= HEADER_LEN + 44
       /\ SubSeq(raw, 33, 36) = U32Bytes(456)
       /\ SubSeq(raw, 41, 44) = U32Bytes(431)
       /\ SubSeq(raw, 49, 52) = U32Bytes(421)
    THEN ((raw[61] * 256 + raw[62]) * 256 + raw[63]) * 256 + raw[64]
    ELSE 0

\* The quota the client itself is configured with: the default of the quota
\* simulator, the Requested-Service-Unit of the other clients.
LocalQuota == IF script = "exhausted" THEN DEFAULT_OCTETS ELSE REQ_TOTAL_OCTETS

\* The quota of the session: the one granted in the first Credit-Control
\* answer when it grants one, else the local one.
SessionQuota ==
    IF Len(CcasIn) >= 1 /\ GrantOf(CcasIn[1]) # 0 THEN GrantOf(CcasIn[1])
    ELSE LocalQuota

\* Seconds between the start of the run and the building of the i-th CCR,
\* whose hop-by-hop identifier is the clock at that moment.
ElapsedAt(i) == CcrsOut[i].hbh - start

\* C12: a CCR-U is written only when a report is due: the usage it reports has
\* reached the quota of the session, or the validity time is over.
C12_UpdateOnlyWhenDue ==
    \A i \in 1..Len(CcrsOut) :
        CcrsOut[i].req_type = "UPDATE" =>
            \/ CcrsOut[i].used >= SessionQuota
            \/ ElapsedAt(i) >= VALIDITY_SECONDS

\* The i-th CCR is the CCR-U the quota simulator writes on exhaustion, in a
\* session whose quota is 512000 octets: the validity time is not over, or the
\* usage has reached the quota.
OnExhaustion(i) ==
    /\ IsSimulatorUpdate(i)
    /\ SessionQuota = DEFAULT_OCTETS
    /\ \/ ElapsedAt(i) < VALIDITY_SECONDS
       \/ CcrsOut[i].used >= DEFAULT_OCTETS

\* C13: with a quota of 512000 octets and usage accumulated in steps, the
\* CCR-U written on exhaustion carries reporting reason 3 and CC-Total-Octets
\* exactly 512000.
C13_ExhaustionReport ==
    \A i \in 1..Len(CcrsOut) :
        OnExhaustion(i) =>
            /\ CcrsOut[i].rr = 3
            /\ CcrsOut[i].used = DEFAULT_OCTETS

C13_Witness ==
    /\ OnExhaustion(2)
    /\ Len(CcasIn) >= 1
    /\ GrantOf(CcasIn[1]) = DEFAULT_OCTETS
    /\ ElapsedAt(2) < VALIDITY_SECONDS
    /\ CcrsOut[2].used = 10 * SIM_STEP_BYTES

\* C14: the CCR-I carries CC-Request-Number 0 and no reporting reason: its
\* MSCC holds no 3GPP-Reporting-Reason AVP (rr = 0 in the message written).
C14_InitialHasNoReason ==
    \A i \in 1..Len(CcrsOut) :
        CcrsOut[i].req_type = "INITIAL" =>
            /\ CcrsOut[i].req_no = 0
            /\ CcrsOut[i].rr = 0

\* C15: every CCR-T carries reporting reason FINAL (2), whatever usage it
\* reports and whatever reason the CCR-U before it carried.
C15_TerminationIsFinal ==
    \A i \in 1..Len(CcrsOut) :
        CcrsOut[i].req_type = "TERMINATION" => CcrsOut[i].rr = 2

C15_Witness ==
    /\ Len(CcrsOut) = 3
    /\ CcrsOut[3].req_type = "TERMINATION"
    /\ CcrsOut[3].used = USED_T_TOTAL
    /\ CcrsOut[2].rr = 3
    /\ script = "iut"

\* A CCR-T has been written.
TerminationSent == \E i \in 1..Len(CcrsOut) : CcrsOut[i].req_type = "TERMINATION"

\* C16: the CCR-T is written once and is the last CCR of the session: once it
\* has been written the client only waits for its answer, and with the answer,
\* success or not, the session is over and the connection closed.
C16_TerminationIsLast ==
    /\ \A i \in 1..Len(CcrsOut) :
          CcrsOut[i].req_type = "TERMINATION" => i = Len(CcrsOut)
    /\ TerminationSent => pc \in {"cca_t", "done", "failed"}
    /\ (TerminationSent /\ pc = "done") => ~sockOpen

C16_Witness ==
    /\ TerminationSent
    /\ pc = "done"
    /\ Len(received) = Len(out)
    /\ IsCca(received[Len(received)])
    /\ ResultCodeOf(received[Len(received)]) = 5012

\* C17: from one CCR of the session to the next the cumulative used octets
\* reported (Used-Service-Unit CC-Total-Octets) never decrease.
C17_UsedNeverDecreases ==
    \A i \in 2..Len(CcrsOut) : CcrsOut[i].used >= CcrsOut[i - 1].used

C17_Witness ==
    /\ script = "exhausted"
    /\ Len(CcrsOut) = 3
    /\ CcrsOut[1].used = 0
    /\ CcrsOut[2].used > 0
    /\ CcrsOut[2].used < DEFAULT_OCTETS
    /\ CcrsOut[3].used = CcrsOut[2].used

\* C18: every CCR carries exactly one MSCC group, which holds
\* Used-Service-Unit, Rating-Group and Reporting-Reason, and holds
\* Requested-Service-Unit exactly when the request is a CCR-I or CCR-U: a
\* CCR-T carries none.
C18_MsccShape ==
    \A i \in 1..Len(CcrsOut) :
        /\ Len(CcrsOut[i].mscc) = 1
        /\ {"Used-Service-Unit", "Rating-Group", "3GPP-Reporting-Reason"}
              \subseteq CcrsOut[i].mscc[1]
        /\ CcrsOut[i].rg = RATING_GROUP
        /\ "Requested-Service-Unit" \in CcrsOut[i].mscc[1]
              <=> CcrsOut[i].req_type \in {"INITIAL", "UPDATE"}

\* The hop-by-hop identifier in bytes 12..15 of a message's header.
HopByHopOf(raw) ==
    IF Len(raw) >= HEADER_LEN
    THEN ((raw[13] * 256 + raw[14]) * 256 + raw[15]) * 256 + raw[16]
    ELSE -1

\* C19: the message a client takes as the answer to a CCR, the one its read
\* after writing the CCR returns, is an answer and carries the CCR's
\* hop-by-hop identifier.
C19_AnswerMatchesRequest ==
    \A i \in 1..Len(received) :
        (i <= Len(out) /\ out[i].kind = "CCR") =>
            /\ ~IsRequest(received[i])
            /\ HopByHopOf(received[i]) = out[i].hbh

\* The first Credit-Control answer, the one to the CCR-I, is a success.
InitialGranted == Len(CcasIn) >= 1 /\ ResultCodeOf(CcasIn[1]) = 2001

\* The quota simulator has left its loop before the validity time was over,
\* that is, because it judged the quota exhausted.
JudgedExhausted ==
    /\ script = "exhausted"
    /\ pc \in {"ccr_u", "cca_u", "cca_t", "done"}
    /\ elapsed < VALIDITY_SECONDS

\* C20: after a successful CCR-I exhaustion is judged against the quota of the
\* session: the quota the CCA grants when it carries one, the local default
\* only when it carries none.
C20_JudgedAgainstGrant ==
    (InitialGranted /\ JudgedExhausted) => used_total >= SessionQuota

(***************************************************************************)
(* The AVPs the scripts build by hand.                                     *)
(***************************************************************************)
\* Faulty variant: the input share is rounded up.
split_in_out_RoundedUp(total) ==
    LET inp == (total + 3) \div 4 IN <<inp, total - inp>>

\* inp = total // 4; out = total - inp; return inp, out
split_in_out(total) ==
    LET inp == total \div 4 IN <<inp, total - inp>>

build_mscc(requested_octets, used, reporting_reason) ==
    LET io  == split_in_out(used)
        rsu == AvpGrouped(437, <<>>, <<AvpNumber(421, <<>>, requested_octets)>>)
        usu == AvpGrouped(446, <<>>, <<AvpNumber(421, <<>>, used),
                                       AvpNumber(412, <<>>, io[1]),
                                       AvpNumber(414, <<>>, io[2])>>)
        rg  == AvpNumber(432, <<>>, RATING_GROUP)
        rr  == AvpNumber(872, <<VENDOR_TGPP>>, reporting_reason)
    IN  AvpGrouped(456, <<>>, <<rsu, usu, rg, rr>>)

(***************************************************************************)
(* A caller of the AVP codec: it makes an AVP, nests it in groups, encodes *)
(* it in front of whatever follows in the buffer, and decodes the buffer.  *)
(***************************************************************************)
MaxDepth == 4
MaxTotal == 9

Totals == (0..MaxTotal) \cup {k * SIM_STEP_BYTES : k \in 1..10} \cup {DEFAULT_OCTETS}

BaseLeaves ==
    { AvpNumber(266, <<>>, 6527),
      AvpNumber(421, <<>>, DEFAULT_OCTETS),
      AvpNumber(872, <<VENDOR_TGPP>>, 3),
      AvpOctets(264, <<>>, ORIGIN_HOST),
      AvpOctets(296, <<>>, ORIGIN_REALM),
      AvpOctets(264, <<>>, <<>>),
      AvpOctets(269, <<>>, PRODUCT_NAME),
      AvpOctets(281, <<>>, <<233, 116, 97, 116>>),
      AvpOctets(257, <<>>, <<0, 0, 0, 0>>),
      AvpOctets(10, <<VENDOR_TGPP>>, NSAPI),
      AvpOctets(1227, <<VENDOR_TGPP>>, <<198, 18, 153, 112>>),
      AvpGrouped(456, <<>>, <<>>) }

Leaves ==
    { [a EXCEPT !.is_mandatory = m, !.is_protected = p] :
        a \in BaseLeaves, m \in BOOLEAN, p \in BOOLEAN }

GroupHeads == { <<456, <<>>>>, <<873, <<VENDOR_TGPP>>>> }

Sibling == AvpOctets(10, <<VENDOR_TGPP>>, NSAPI)

RECURSIVE Depth(_), DepthOfAll(_)
Depth(a) == 1 + DepthOfAll(a.avps)

DepthOfAll(as) ==
    IF as = <<>> THEN 0 ELSE Max(Depth(Head(as)), DepthOfAll(Tail(as)))

AvpNew ==
    /\ cpc = "idle"
    /\ avp' \in Leaves
    /\ cpc' = "avp"
    /\ UNCHANGED <<clientVars, msgVars, enc, dec>>

BuildMscc ==
    /\ cpc = "idle"
    /\ \E used \in Totals, reporting_reason \in {2, 3} :
          avp' = build_mscc(DEFAULT_OCTETS, used, reporting_reason)
    /\ cpc' = "avp"
    /\ UNCHANGED <<clientVars, msgVars, enc, dec>>

AvpWrap ==
    /\ cpc = "avp"
    /\ Depth(avp) < MaxDepth
    /\ \E g \in GroupHeads, members \in {<<avp>>, <<avp, Sibling>>} :
          avp' = AvpGrouped(g[1], g[2], members)
    /\ UNCHANGED <<clientVars, cpc, msgVars, enc, dec>>

AvpEncode ==
    /\ cpc = "avp"
    /\ \E following \in {<<>>, EncodeAvp(Sibling)} :
          enc' = EncodeAvp(avp) \o following
    /\ cpc' = "encoded"
    /\ UNCHANGED <<clientVars, msgVars, avp, dec>>

AvpDecode ==
    /\ cpc = "encoded"
    /\ dec' = DecodeAvp(enc, 0)
    /\ cpc' = "decoded"
    /\ UNCHANGED <<clientVars, msgVars, avp, enc>>

(***************************************************************************)
(***************************************************************************)
(* The message library: command builders, as_bytes(), to_answer() and      *)
(* Message.from_bytes().  A message is its header fields and the ordered   *)
(* sequence of its AVPs; the attributes of a command are views over the    *)
(* AVPs of that sequence.                                                  *)
(***************************************************************************)
\* The attributes of a command that are not repeatable, in the order the
\* callers set them.
AttrsOf(name) ==
    CASE name = "CER" ->
           <<"origin_host", "origin_realm", "host_ip_address", "vendor_id",
             "product_name", "origin_state_id", "auth_application_id",
             "inband_security_id", "acct_application_id", "firmware_revision">>
      [] name = "CEA" ->
           <<"result_code", "origin_host", "origin_realm", "host_ip_address",
             "vendor_id", "product_name", "origin_state_id", "auth_application_id",
             "inband_security_id", "acct_application_id", "firmware_revision",
             "error_message", "failed_avp">>
      [] name = "CCR" -> <<"cc_request_type", "cc_request_number">>
      [] OTHER -> <<>>

AttrNames(name) == {AttrsOf(name)[i] : i \in 1..Len(AttrsOf(name))}

AttrIndex(name, attr) == CHOOSE i \in 1..Len(AttrsOf(name)) : AttrsOf(name)[i] = attr

AttrCode(attr) ==
    CASE attr = "origin_host"         -> 264
      [] attr = "origin_realm"        -> 296
      [] attr = "host_ip_address"     -> 257
      [] attr = "vendor_id"           -> 266
      [] attr = "product_name"        -> 269
      [] attr = "origin_state_id"     -> 278
      [] attr = "auth_application_id" -> 258
      [] attr = "inband_security_id"  -> 299
      [] attr = "acct_application_id" -> 259
      [] attr = "firmware_revision"   -> 267
      [] attr = "result_code"         -> 268
      [] attr = "error_message"       -> 281
      [] attr = "failed_avp"          -> 279
      [] attr = "cc_request_type"     -> 416
      [] attr = "cc_request_number"   -> 415

\* The values the callers give the setters.
AttrValues(attr) ==
    CASE attr = "origin_host"         -> {ORIGIN_HOST}
      [] attr = "origin_realm"        -> {ORIGIN_REALM}
      [] attr = "host_ip_address"     -> {<<0, 0, 0, 0>>}
      [] attr = "vendor_id"           -> {6527}
      [] attr = "product_name"        -> {PRODUCT_NAME}
      [] attr = "origin_state_id"     -> {1689134718}
      [] attr = "auth_application_id" -> {0, 4}
      [] attr = "inband_security_id"  -> {0}
      [] attr = "acct_application_id" -> {4}
      [] attr = "firmware_revision"   -> {16777216}
      [] attr = "result_code"         -> {2001, 5012}
      [] attr = "error_message"       -> {<<73, 110, 118, 97, 108, 105, 100>>}
      [] attr = "failed_avp"          -> {<<AvpOctets(257, <<>>, <<0, 0, 0, 0>>)>>}
      [] attr = "cc_request_type"     -> {1, 2, 3}
      [] attr = "cc_request_number"   -> {0, 1}

\* The AVP a setter makes of the value it is given.
AttrAvp(attr, value) ==
    LET type == AvpType(AttrCode(attr), <<>>)
    IN  CASE type \in {"Unsigned32", "Unsigned64"} -> AvpNumber(AttrCode(attr), <<>>, value)
          [] type = "Grouped" -> AvpGrouped(AttrCode(attr), <<>>, value)
          [] OTHER -> AvpOctets(AttrCode(attr), <<>>, value)

AvpValue(a) ==
    CASE a.type \in {"Unsigned32", "Unsigned64"} -> a.n
      [] a.type = "Grouped" -> a.avps
      [] OTHER -> a.data

Occurrences(avps, code) == {i \in 1..Len(avps) : avps[i].code = code}

First(S) == CHOOSE i \in S : \A j \in S : i <= j

\* Reading an attribute: <<>> when the message has no such AVP, else <<value>>.
GetAttr(m, attr) ==
    IF Occurrences(m.avps, AttrCode(attr)) = {} THEN <<>>
    ELSE <<AvpValue(m.avps[First(Occurrences(m.avps, AttrCode(attr)))])>>

\* Faulty variant: a setter always adds an AVP.
SetAvpAppends(avps, a) == Append(avps, a)

\* A typed setter of a non-repeatable attribute: it replaces the AVP of that
\* code when the sequence has one, and appends it when it has none.
SetAvp(avps, a) ==
    IF Occurrences(avps, a.code) = {} THEN Append(avps, a)
    ELSE [i \in 1..Len(avps) |->
            IF i = First(Occurrences(avps, a.code)) THEN a ELSE avps[i]]

\* Faulty variant: a new occurrence goes in front.
append_avp_InFront(avps, a) == <<a>> \o avps

\* msg.append_avp(avp), also behind add_subscription_id()
append_avp(avps, a) == Append(avps, a)

\* Both builders start with Auth-Application-Id "diameter common messages".
DefaultAvps(name) ==
    IF name \in {"CER", "CEA"} THEN <<AvpNumber(258, <<>>, 0)>> ELSE <<>>

NewMessage(name) ==
    [name |-> name, code |-> IF name = "CCR" THEN 272 ELSE 257,
     is_request |-> name \in {"CER", "CCR"}, application_id |-> 0,
     length |-> 0, avps |-> DefaultAvps(name)]

\* Faulty variant: the answer takes the header of the request as it is.
to_answer_KeepsFlags(req) ==
    [NewMessage("CEA") EXCEPT !.is_request = req.is_request,
                              !.application_id = req.application_id]

\* req.to_answer()
to_answer(req) ==
    [NewMessage("CEA") EXCEPT !.application_id = req.application_id]

RECURSIVE UnpaddedLen(_)
UnpaddedLen(as) ==
    IF as = <<>> THEN 0
    ELSE FromBytesBig(SubSeq(EncodeAvp(Head(as)), 6, 8)) + UnpaddedLen(Tail(as))

\* Faulty variant: the sum of the length fields of the AVPs.
MessageLengthUnpadded(avps) == HEADER_LEN + UnpaddedLen(avps)

\* The header's length: the total encoded size.
MessageLength(avps) == HEADER_LEN + Len(EncodeAvps(avps))

\* msg.as_bytes()
as_bytes(m) ==
    EncodeHeader(MessageLength(m.avps), IF m.is_request THEN 128 ELSE 0, m.code,
                 m.application_id, 0, 0) \o EncodeAvps(m.avps)

(***************************************************************************)
(* A caller of the message library: it makes a CER, a CEA or a CCR, sets   *)
(* attributes (the ones not yet set in the order of the builder's list,    *)
(* any one again later), adds repeatable AVPs, and then encodes the        *)
(* message and parses the bytes, or turns the CER into its answer.         *)
(* last_set keeps what was set on the CER when to_answer() is called.      *)
(***************************************************************************)
MaxVendorIds == 2
MaxSubscriptionIds == 3

Unset(name) == [a \in AttrNames(name) |-> <<>>]

\* cer = CapabilitiesExchangeRequest()
CapabilitiesExchangeRequest ==
    /\ cpc = "idle"
    /\ msg' = NewMessage("CER")
    /\ last_set' = Unset("CER")
    /\ cpc' = "building"
    /\ UNCHANGED <<clientVars, msg_bytes, parsed, avp, enc, dec, added>>

\* cea = CapabilitiesExchangeAnswer()
CapabilitiesExchangeAnswer ==
    /\ cpc = "idle"
    /\ msg' = NewMessage("CEA")
    /\ last_set' = Unset("CEA")
    /\ cpc' = "building"
    /\ UNCHANGED <<clientVars, msg_bytes, parsed, avp, enc, dec, added>>

\* ccr = CreditControlRequest()
CreditControlRequest ==
    /\ cpc = "idle"
    /\ msg' = NewMessage("CCR")
    /\ last_set' = Unset("CCR")
    /\ cpc' = "building"
    /\ UNCHANGED <<clientVars, msg_bytes, parsed, avp, enc, dec, added>>

SetAttr ==
    /\ cpc = "building"
    /\ \E attr \in AttrNames(msg.name) :
          /\ \/ last_set[attr] # <<>>
             \/ /\ added = <<>>
                /\ \A b \in AttrNames(msg.name) :
                      last_set[b] # <<>> =>
                          AttrIndex(msg.name, b) < AttrIndex(msg.name, attr)
          /\ \E value \in AttrValues(attr) :
                /\ msg' = [msg EXCEPT !.avps = SetAvp(@, AttrAvp(attr, value))]
                /\ last_set' = [last_set EXCEPT ![attr] = <<value>>]
    /\ UNCHANGED <<clientVars, cpc, msg_bytes, parsed, avp, enc, dec, added>>

\* cer.append_avp(Avp.new(AVP_SUPPORTED_VENDOR_ID, value=vid))
AppendSupportedVendorId ==
    /\ cpc = "building"
    /\ msg.name = "CER"
    /\ Len(added) < MaxVendorIds
    /\ \E vid \in {VENDOR_TGPP, 5535} :
          LET a == AvpNumber(265, <<>>, vid)
          IN  /\ msg' = [msg EXCEPT !.avps = append_avp(@, a)]
              /\ added' = Append(added, a)
    /\ UNCHANGED <<clientVars, cpc, msg_bytes, parsed, avp, enc, dec, last_set>>

\* The Subscription-Id types END_USER_E164, END_USER_IMSI and END_USER_NAI
\* with the data the clients give them.
SubscriptionIds == {<<0, SUB_E164>>, <<1, SUB_IMSI>>, <<3, SUB_NAI>>}

\* ccr.add_subscription_id(subscription_id_type, subscription_id_data)
SubscriptionId(type, data) ==
    AvpGrouped(443, <<>>, <<AvpNumber(450, <<>>, type), AvpOctets(444, <<>>, data)>>)

add_subscription_id(avps, type, data) == append_avp(avps, SubscriptionId(type, data))

AddSubscriptionId ==
    /\ cpc = "building"
    /\ msg.name = "CCR"
    /\ Len(added) < MaxSubscriptionIds
    /\ \E sub \in SubscriptionIds :
          /\ msg' = [msg EXCEPT !.avps = add_subscription_id(@, sub[1], sub[2])]
          /\ added' = Append(added, SubscriptionId(sub[1], sub[2]))
    /\ UNCHANGED <<clientVars, cpc, msg_bytes, parsed, avp, enc, dec, last_set>>

ToAnswer ==
    /\ cpc = "building"
    /\ msg.name = "CER"
    /\ msg' = to_answer(msg)
    /\ added' = <<>>
    /\ cpc' = "answer"
    /\ UNCHANGED <<clientVars, msg_bytes, parsed, avp, enc, dec, last_set>>

AsBytes ==
    /\ cpc \in {"building", "answer"}
    /\ msg_bytes' = as_bytes(msg)
    /\ msg' = [msg EXCEPT !.length = MessageLength(msg.avps)]
    /\ cpc' = "bytes"
    /\ UNCHANGED <<clientVars, parsed, avp, enc, dec, last_set, added>>

FromBytes ==
    /\ cpc = "bytes"
    /\ parsed' = from_bytes(msg_bytes)
    /\ cpc' = "parsed"
    /\ UNCHANGED <<clientVars, msg, msg_bytes, avp, enc, dec, last_set, added>>

InitCodec ==
    /\ CodecIdle
    /\ script = "codec"
    /\ pc = "main"
    /\ sockOpen = FALSE
    /\ out = <<>>
    /\ clock = 0
    /\ start = 0
    /\ used_total = 0
    /\ elapsed = 0
    /\ increments = 0
    /\ inbuf = <<>>
    /\ peerClosed = FALSE
    /\ header = <<>>
    /\ body = <<>>
    /\ total_len = 0
    /\ rpc = "idle"
    /\ oneByte = TRUE
    /\ calls = 0
    /\ received = <<>>
    /\ sent = <<>>
    /\ wire = <<>>
    /\ answered = 0
    /\ unsolicited = 0
    /\ malformed = 0
    /\ pending = <<>>

NextCodec ==
    \/ AvpNew
    \/ BuildMscc
    \/ AvpWrap
    \/ AvpEncode
    \/ AvpDecode
    \/ CapabilitiesExchangeRequest
    \/ CapabilitiesExchangeAnswer
    \/ CreditControlRequest
    \/ SetAttr
    \/ AppendSupportedVendorId
    \/ AddSubscriptionId
    \/ ToAnswer
    \/ AsBytes
    \/ FromBytes

SpecCodec == InitCodec /\ [][NextCodec]_vars

(***************************************************************************)
(* Properties of the message library.                                      *)
(***************************************************************************)
\* C21: after as_bytes() of a CER or a CEA, whichever of its attributes are
\* populated, the length of the header equals the number of bytes produced,
\* and so does the length field those bytes carry.
C21_LengthIsEncodedSize ==
    (cpc \in {"bytes", "parsed"} /\ msg.name \in {"CER", "CEA"}) =>
        /\ msg.length = Len(msg_bytes)
        /\ LengthField(msg_bytes) = Len(msg_bytes)

\* A CEA with every attribute populated has been encoded, and some of its
\* AVPs are padded.
C21_Witness ==
    /\ cpc = "bytes"
    /\ msg.name = "CEA"
    /\ DOMAIN last_set = AttrNames("CEA")
    /\ \A attr \in AttrNames("CEA") : last_set[attr] # <<>>
    /\ Len(msg_bytes) > MessageLengthUnpadded(msg.avps)

\* The request flag the encoded header carries.
RequestBit(b) == (b[5] \div 128) % 2 = 1

C23_SetterReplaces ==
    (cpc \in {"building", "bytes", "parsed"} /\ DOMAIN last_set = AttrNames(msg.name)) =>
        \A attr \in AttrNames(msg.name) :
            last_set[attr] # <<>> =>
                /\ Cardinality(Occurrences(msg.avps, AttrCode(attr))) = 1
                /\ GetAttr(msg, attr) = last_set[attr]

\* The default Auth-Application-Id of a CER has been overridden with 4, after
\* other attributes were set.
C23_Witness ==
    /\ cpc = "building"
    /\ msg.name = "CER"
    /\ DOMAIN last_set = AttrNames("CER")
    /\ last_set["auth_application_id"] = <<4>>
    /\ last_set["origin_host"] # <<>>
    /\ GetAttr(msg, "auth_application_id") = <<4>>
    /\ DefaultAvps("CER")[1].n = 0

IsRepeatable(a) == a.code \in {265, 443}

\* The occurrences of the repeatable AVPs in a sequence of AVPs, in its order.
Repeatables(avps) == SelectSeq(avps, IsRepeatable)

\* C24: every Supported-Vendor-Id added to a CER and every Subscription-Id
\* added to a CCR is one more occurrence after the ones before it; the bytes
\* of the message hold all of them in the order they were added, and the
\* parsed message gives them back in that order.
C24_RepeatableKeepsOrder ==
    /\ cpc \in {"building", "bytes", "parsed"} => Repeatables(msg.avps) = added
    /\ cpc \in {"bytes", "parsed"} =>
           /\ DecodeAvps(Drop(msg_bytes, HEADER_LEN)).ok
           /\ Repeatables(DecodeAvps(Drop(msg_bytes, HEADER_LEN)).avps) = added
    /\ cpc = "parsed" => Repeatables(parsed.avps) = added

\* A CCR with the Subscription-Ids E164, IMSI and NAI, added in that order,
\* has been encoded and parsed.
C24_Witness ==
    /\ cpc = "parsed"
    /\ msg.name = "CCR"
    /\ added = <<SubscriptionId(0, SUB_E164), SubscriptionId(1, SUB_IMSI),
                 SubscriptionId(3, SUB_NAI)>>

\* A CER with vendor_id 6527, auth_application_id 4 and the Supported-Vendor-Ids
\* 10415 and 5535, added in that order, has been encoded and parsed.
CerScenario ==
    /\ cpc = "parsed"
    /\ msg.name = "CER"
    /\ last_set["vendor_id"] = <<6527>>
    /\ last_set["auth_application_id"] = <<4>>
    /\ added = <<AvpNumber(265, <<>>, VENDOR_TGPP), AvpNumber(265, <<>>, 5535)>>

(***************************************************************************)
(* Properties of the AVP codec.                                            *)
(***************************************************************************)
\* C29: decoding the encoding of an AVP, vendor-specific or not, a leaf or
\* groups nested up to MaxDepth, gives an AVP equal to the original and
\* consumes exactly its encoded bytes, padding included, and nothing of what
\* follows it in the buffer.
C29_AvpRoundTrip ==
    cpc = "decoded" =>
        /\ dec.ok
        /\ dec.avp = avp
        /\ dec.consumed = Len(EncodeAvp(avp))
        /\ dec.consumed % 4 = 0
        /\ dec.consumed >= AvpHeaderLen(avp.vendor_id)
        /\ Drop(enc, dec.consumed) \in {<<>>, EncodeAvp(Sibling)}

\* The Multiple-Services-Credit-Control of a CCR, nested in a vendor-specific
\* group next to a padded AVP, has been encoded in front of another AVP and
\* decoded.
C29_Witness ==
    /\ cpc = "decoded"
    /\ avp.vendor_id = <<VENDOR_TGPP>>
    /\ Len(avp.avps) = 2
    /\ avp.avps[1].code = 456
    /\ Len(avp.avps[1].avps) = 4
    /\ Depth(avp) = MaxDepth
    /\ Len(enc) > Len(EncodeAvp(avp))
    /\ dec.ok

\* C30: the Used-Service-Unit of a Multiple-Services-Credit-Control built for
\* a total carries input = total div 4 and output = total - input, so that
\* the two add up to the total and each lies within 0..total.
C30_SplitInOut ==
    (cpc \in {"avp", "encoded", "decoded"} /\ avp.code = 456 /\ Len(avp.avps) = 4) =>
        LET usu == avp.avps[2]
            total == usu.avps[1].n
            inp == usu.avps[2].n
            outp == usu.avps[3].n
        IN  /\ usu.code = 446
            /\ total >= 0
            /\ inp = total \div 4
            /\ outp = total - inp
            /\ inp + outp = total
            /\ inp \in 0..total
            /\ outp \in 0..total

\* A Used-Service-Unit for a total that 4 does not divide has been built.
C30_Witness ==
    /\ cpc = "avp"
    /\ avp.code = 456
    /\ Len(avp.avps) = 4
    /\ avp.avps[2].avps[1].n = 3
    /\ avp.avps[2].avps[2].n = 0
    /\ avp.avps[2].avps[3].n = 3

(***************************************************************************)
(* Properties of the clients, continued.                                   *)
(***************************************************************************)
CersOut == SelectSeq(out, LAMBDA m : m.kind = "CER")

\* C25: every CER a client writes carries origin-host, origin-realm,
\* host-ip-address, vendor-id, product-name and auth-application-id, and
\* inband-security-id NO_INBAND_SECURITY.
C25_CerCarriesIdentity ==
    \A i \in 1..Len(CersOut) :
        /\ CersOut[i].identity.origin_host # <<>>
        /\ CersOut[i].identity.origin_realm # <<>>
        /\ CersOut[i].identity.host_ip_address # <<>>
        /\ CersOut[i].identity.vendor_id # <<>>
        /\ CersOut[i].identity.product_name # <<>>
        /\ CersOut[i].identity.auth_application_id # <<>>
        /\ CersOut[i].identity.inband_security_id = <<"NO_INBAND_SECURITY">>

\* The message the client's last read returned is one Message.from_bytes
\* cannot decode, and the client has not gone on yet.
UndecodableAnswer ==
    /\ script \in {"exhausted", "iut", "data"}
    /\ rpc = "returned"
    /\ received # <<>>
    /\ ~Decodes

\* C26: an answer that cannot be decoded costs a client that exchanges CCRs
\* that one message only: its connection stays open and its run does not end
\* there.
C26_MalformedIsLocal == UndecodableAnswer => (sockOpen /\ pc # "failed")

\* recv_one_diameter has raised ConnectionError: the peer closed the
\* connection inside a header or inside a body.
TransportFailed ==
    /\ script \in {"exhausted", "iut", "data"}
    /\ rpc = "ConnectionError"

\* C27: once the connection was closed inside a header or a body of an
\* awaited answer, the client writes nothing more and reads nothing more; the
\* one step it takes is the exception leaving main(), which closes the
\* connection.
C27_TransportFailureEscalates ==
    [][TransportFailed =>
          /\ out' = out
          /\ calls' = calls
          /\ rpc' = rpc
          /\ \/ pc' = pc /\ sockOpen' = sockOpen
             \/ pc' = "failed" /\ ~sockOpen']_vars

\* The peer closed the connection inside the body of the answer to a CCR and
\* the exception has left main().
C27_Witness ==
    /\ TransportFailed
    /\ pc = "failed"
    /\ ~sockOpen
    /\ Len(header) = HEADER_LEN
    /\ body # <<>>
    /\ Len(CcrsOut) >= 1

\* C28: a client writes the CER once, as the first message of its connection,
\* and no two CCRs it writes carry the same request number, whatever the
\* answers are and whether they come or not.
C28_NoRetry ==
    /\ Len(CersOut) <= 1
    /\ out # <<>> => out[1].kind = "CER"
    /\ \A i, j \in 1..Len(CcrsOut) :
           CcrsOut[i].req_no = CcrsOut[j].req_no => i = j

\* The answer to the CCR-I was an error, the CCR-U was written after it, and
\* its answer never came: the read timed out and the run ended.
C28_Witness ==
    /\ script = "iut"
    /\ pc = "failed"
    /\ rpc = "timeout"
    /\ Len(CcrsOut) = 2
    /\ Len(received) = 2
    /\ ResultCodeOf(received[2]) = 5012

(***************************************************************************)
(* The quota simulator of send_and_terminate_ccr_when_data_exhausted.py    *)
(***************************************************************************)
\* C31: in the quota simulator used_total stays within 0..DEFAULT_OCTETS and
\* never decreases; the loop left for exhaustion leaves used_total equal to
\* DEFAULT_OCTETS, the loop left for the validity timer leaves it below.
C31_UsedTotalBounded ==
    /\ [](script = "exhausted" => 0 <= used_total /\ used_total <= DEFAULT_OCTETS)
    /\ [][/\ script = "exhausted" => used_total' >= used_total
          /\ E_QuotaExhausted => used_total' = DEFAULT_OCTETS
          /\ E_ValidityExpired => used_total' < DEFAULT_OCTETS]_vars

\* the loop has been left for the validity timer after usage was simulated
C31_Witness ==
    /\ script = "exhausted"
    /\ pc = "ccr_u"
    /\ elapsed >= VALIDITY_SECONDS
    /\ 0 < used_total
    /\ used_total < DEFAULT_OCTETS

\* ceil(DEFAULT_OCTETS / SIM_STEP_BYTES)
MaxIncrements == (DEFAULT_OCTETS + SIM_STEP_BYTES - 1) \div SIM_STEP_BYTES

UpdateSent == \E i \in 1..Len(out) : out[i].kind = "CCR" /\ out[i].req_type = "UPDATE"

\* C32: the simulation loop adds usage at most ceil(DEFAULT_OCTETS /
\* SIM_STEP_BYTES) times and is left, whatever the clock does; once the answer
\* to the CCR-I has been returned a CCR-U is eventually written.
C32_SimulatorTerminates ==
    /\ [](increments <= MaxIncrements)
    /\ (pc = "cca_i" /\ rpc = "returned") ~> UpdateSent

\* the CCR-U is written after the greatest number of increments, with a clock
\* that has not advanced since the start
C32_Witness ==
    /\ UpdateSent
    /\ increments = MaxIncrements
    /\ clock = start

(***************************************************************************)
(* Identifiers and the order of writes                                     *)
(***************************************************************************)
\* C33: the CCRs written in one session carry pairwise distinct hop-by-hop
\* identifiers, whatever the clock they are derived from does, two CCRs built
\* within the same second included.
C33_DistinctHopByHop ==
    \A i \in 1..Len(CcrsOut) : \A j \in 1..Len(CcrsOut) :
        i # j => CcrsOut[i].hbh # CcrsOut[j].hbh

\* The writes so far, by what is written: "NONE" for the CER, the
\* CC-Request-Type for a CCR.
Writes == [i \in 1..Len(out) |-> out[i].req_type]

\* A whole answer to the CER is among the messages read.
CeaReceived ==
    \E i \in 1..Len(received) :
        IsAnswerTo(received[i], 257) /\ WellFormed(received[i])

\* One whole inbound message has been read for every message written.
OneReadPerWrite ==
    /\ Len(received) = Len(out)
    /\ rpc \in {"returned", "idle"}
    /\ WellFormed(received[Len(received)])

\* The order of the writes and one read between two of them, without what the
\* message read is.
WriteOrder ==
    [][Len(out') > Len(out) =>
          /\ IsPrefix(Writes', <<"NONE", "INITIAL", "UPDATE", "TERMINATION">>)
          /\ Len(out) >= 1 => OneReadPerWrite]_vars

\* C34: no CCR is written before the CER has been written and a whole answer
\* to the CER has been received; the writes are CER, CCR-I, CCR-U, CCR-T in
\* this order, one whole inbound message being read between two of them.
C34_CerAnsweredFirst ==
    [][Len(out') > Len(out) =>
          /\ IsPrefix(Writes', <<"NONE", "INITIAL", "UPDATE", "TERMINATION">>)
          /\ Len(out) >= 1 => OneReadPerWrite /\ CeaReceived]_vars

(***************************************************************************)
(* Termination of recv_one_diameter                                        *)
(***************************************************************************)
\* The bytes one call of recv_one_diameter has taken from the socket so far.
BytesRead == Len(header) + Len(body)

\* The length field of the header being read, 20 while it is not whole or
\* where the field is smaller.
LengthOrHeader ==
    IF Len(header) >= HEADER_LEN THEN Max(LengthField(header), HEADER_LEN)
    ELSE HEADER_LEN

Reading == rpc \in {"header", "body"}

\* C35: recv_one_diameter terminates whatever the header holds.  A recv that
\* returns data adds at least one byte to what has been read, what has been
\* read never passes the length field (or 20, if larger), so at most that
\* many recv calls return data; and unless a recv times out, that is returns
\* neither data nor the end of the stream, the call ends with a message
\* returned or with the connection error.
C35_RecvTerminates ==
    /\ [](BytesRead <= LengthOrHeader)
    /\ [][(HeaderRecvData \/ BodyRecvData) => BytesRead' > BytesRead]_vars
    /\ Reading ~> rpc \in {"returned", "ConnectionError", "timeout"}
    /\ [](rpc # "timeout") => (Reading ~> rpc \in {"returned", "ConnectionError"})

\* a message longer than its header has been returned after as many recv calls
\* as it has bytes, each having returned one byte
C35_Witness ==
    /\ rpc = "returned"
    /\ oneByte
    /\ BytesRead = LengthField(header)
    /\ BytesRead > HEADER_LEN

====
